---- MODULE Spec2Model ----
(***************************************************************************)
(* Signaling core of OpenCall-Backend: the session registry (Hub), the     *)
(* two-party Session, the Client connection actor with its inbound         *)
(* (readPump) and outbound (writePump) loops, the session_ready notice and *)
(* the departure path of the lifecycle service.                            *)
(*                                                                         *)
(* Go goroutines are modelled as processes with a program counter each:    *)
(*   hpc[c]  the HTTP handler goroutine running HandleWebSocket for c      *)
(*   rpc[c]  the readPump goroutine of c                                   *)
(*   wpc[c]  the writePump goroutine of c                                  *)
(* A step is one critical section or one channel operation of the source.  *)
(* A panic in a handler goroutine is recovered by net/http and ends that   *)
(* goroutine only; a panic in a pump goroutine ends the process.           *)
(***************************************************************************)
EXTENDS Integers, Sequences, FiniteSets, TLC

\* ------------------------------------------------------------------ bounds
SendCap == 2       \* capacity of Client.Send (256 in the source), scaled
MaxFrames == 1     \* inbound frames read by all readPumps together
MaxSess == 2       \* Session objects allocated by NewSession
MaxCalls == 4      \* API calls made in the registry-level specification
maxSize == 2       \* MessageBuffer.maxSize (100 in the source), scaled
MaxNow == 2        \* clock readings 0..MaxNow
maxDuration == 1   \* NewSession's maxDuration (30*60 s in the source), in ticks

\* --------------------------------------------------------------- universe
Nil == "nil"       \* a nil *Client
NilSess == 0       \* a nil *Session
Roles == {"mentor", "user"}
Bookings == {"b1", "b2"}

\* Connection instances (Client.ID is a fresh uuid per connection).
PumpClients == {"M1", "M2", "U1"}
Clients == PumpClients \cup {"U2", "M3", "U3"}

\* M1 and M2 are two connections of the same mentor to the same booking and
\* differ in nothing but their ID: M1 names the one that registers first.
RegistersAfter(c) == IF c = "M2" THEN {"M1"} ELSE {}

ClientRole(c) == IF c \in {"M1", "M2", "M3"} THEN "mentor" ELSE "user"
ClientBooking(c) == IF c \in {"M3", "U3"} THEN "b2" ELSE "b1"
Username(c) ==
  IF c \in {"M1", "M2"} THEN "alice"
  ELSE IF c \in {"U1", "U2"} THEN "bob"
  ELSE IF c = "M3" THEN "carol" ELSE "dave"

SessIds == 1..MaxSess

\* Goroutines calling into one ConnectionState.
BufCallers == {"g1", "g2"}

\* Connections followed with the persisted record: both parties of b1 and
\* the mentor of b2.
SvcClients == {"M1", "U1", "M3"}
\* Callers of VideoSessionService.EndSession: the disconnect path of each
\* connection.
Enders == SvcClients
\* Authenticated parties; eve owns no booking.
Users == {"alice", "bob", "carol", "eve"}
\* A NULL timestamp column.
NullTime == -1
\* No row of video_sessions for the booking.
NoRecord == [status |-> "none"]

VARIABLES
  sessions,          \* Hub.sessions: booking -> session object or Nil
  sess,              \* the Session objects: BookingID, Mentor, User, Done
  nextSess,          \* next Session object to allocate
  Send,              \* Client.Send: buffered contents of the channel
  sendClosed,        \* Client.Send has been closed
  doneClosed,        \* Client.Done has been closed
  connClosed,        \* Client.Conn has been closed
  SessionReadySent,  \* ConnectionState.SessionReadySent
  hpc, rpc, wpc,     \* program counters of the three goroutines of a client
  hSess,             \* session returned by AddClient, captured by readPump
  hOther,            \* sendSessionReady: otherClient
  rTarget, rMsg,     \* SendToRole: client read under RLock, message to send
  lSess, lOther,     \* HandleClientLeft: session, otherParty
  nFrames,           \* frames read so far
  nCalls,            \* API calls made so far (registry-level specification)
  crashed,           \* a pump goroutine panicked: the process is gone
  enqLog,            \* history: every message ever enqueued on Client.Send
  closeCalls,        \* history: executions of Client.Close per client
  lastReg,           \* history: last client AddClient registered per slot
  ignored,           \* history: reasons for which readPump ignored a frame
  messages,          \* MessageBuffer.messages of one ConnectionState
  MessageBufferActive,   \* ConnectionState.MessageBufferActive
  PeerConnectionReady,   \* ConnectionState.PeerConnectionReady
  bpc, bMsg,         \* BufferMessage per caller: position, isBuffering read
  ret,               \* the value the last finished call returned
  added,             \* history: messages Add accepted since the last Flush
  readySet,          \* history: SetPeerConnectionReady(true) has returned
  flushedReady,      \* history: FlushBuffer has returned after that
  now,               \* the clock: time.Now() and SQL NOW()
  bookingStatus,     \* bookings.status per booking
  rec,               \* video_sessions: the row of each booking, or NoRecord
  reply,             \* the answer to the last request that got one over HTTP
  spc,               \* position of a connection in join / HandleClientLeft
  epc,               \* position of a caller inside EndSession
  eDur,              \* EndSession: duration
  endRuns,           \* history: completed EndSession runs per booking
  written,           \* history: messages writePump wrote to the connection
  lk                 \* h.mu, each Session's mu, and the calls holding them

vars == <<sessions, sess, nextSess, Send, sendClosed, doneClosed, connClosed,
          SessionReadySent, hpc, rpc, wpc, hSess, hOther, rTarget, rMsg,
          lSess, lOther, nFrames, nCalls, crashed, enqLog, closeCalls,
          lastReg, ignored, messages, MessageBufferActive,
          PeerConnectionReady, bpc, bMsg, ret, added, readySet, flushedReady,
          now,
          bookingStatus, rec, reply, spc, epc, eDur, endRuns, written,
          lk>>

hubVars == <<sessions, sess, nextSess>>
chanVars == <<Send, sendClosed, doneClosed, connClosed>>
closeVars == <<sendClosed, doneClosed, connClosed, closeCalls>>
pcVars == <<hpc, rpc, wpc>>
localVars == <<hSess, hOther, rTarget, rMsg, lSess, lOther>>
histVars == <<enqLog, closeCalls, lastReg, ignored>>
bufVars == <<messages, MessageBufferActive, PeerConnectionReady, bpc, bMsg,
             ret, added, readySet, flushedReady>>
dbVars == <<now, bookingStatus, rec, reply, spc, epc, eDur, endRuns>>
\* What the goroutines of a connection and the registry never touch.  The
\* persistence calls made on the way (RecordMentorJoined, RecordUserLeft,
\* EndSession, ...) write the video_sessions row and nothing else; the row is
\* followed in SpecSvc.
extVars == <<bufVars, dbVars, written, lk>>

\* ------------------------------------------------------------- messages
EmptyPayload == [keys |-> "none"]          \* the JSON object {}
BadPayload == [bad |-> "not an object"]    \* a payload json.Unmarshal rejects
JNull == "null"

\* json.Unmarshal into a string field: absent or null leaves "".
DecStr(p, k) == IF k \in DOMAIN p /\ p[k] # JNull THEN p[k] ELSE ""
\* json.Unmarshal into a pointer field: absent or null leaves nil (<<>>).
DecPtr(p, k) == IF k \in DOMAIN p /\ p[k] # JNull THEN <<p[k]>> ELSE <<>>

UnmarshalOk(p) == "bad" \notin DOMAIN p

RTCOfferPayload(p) == [sdp |-> DecStr(p, "sdp")]
RTCAnswerPayload(p) == [sdp |-> DecStr(p, "sdp")]
ICECandidatePayload(p) ==
  [candidate |-> DecStr(p, "candidate"),
   sdpMid |-> DecPtr(p, "sdpMid"),
   sdpMLineIndex |-> DecPtr(p, "sdpMLineIndex")]

SessionReadyMsg(name, role) ==
  [type |-> "session_ready",
   payload |-> [other_party_name |-> name, role |-> role]]
OtherPartyLeftMsg(b) ==
  [type |-> "other_party_left", payload |-> [booking_id |-> b]]
PongMsg == [type |-> "pong", payload |-> EmptyPayload]

\* Frames a party can put on the wire.
RelayFrames ==
  { [type |-> "offer", payload |-> [sdp |-> "v=0"]],
    [type |-> "offer", payload |-> [sdp |-> ""]],
    [type |-> "offer", payload |-> BadPayload],
    [type |-> "answer", payload |-> [sdp |-> "v=1"]],
    [type |-> "answer", payload |-> [sdp |-> JNull]],
    [type |-> "ice_candidate",
     payload |-> [candidate |-> "c1", sdpMid |-> "0", sdpMLineIndex |-> "0"]],
    [type |-> "ice_candidate", payload |-> [candidate |-> "c1"]],
    [type |-> "ice_candidate", payload |-> [candidate |-> ""]],
    [type |-> "ice_candidate", payload |-> [sdpMid |-> "0"]] }
OtherFrames ==
  { [type |-> "leave_call", payload |-> EmptyPayload],
    [type |-> "ping", payload |-> EmptyPayload],
    [type |-> "bogus", payload |-> EmptyPayload],
    [type |-> "not_object", payload |-> BadPayload],
    [type |-> "invalid_json", payload |-> BadPayload] }
Frames == RelayFrames \cup OtherFrames

OtherRole(r) == IF r = "user" THEN "mentor" ELSE "user"

\* ------------------------------------------------------------- sessions
NoSession ==
  [BookingID |-> Nil, Mentor |-> Nil, User |-> Nil, Done |-> FALSE,
   StartTime |-> NullTime, MaxDuration |-> 0]
\* NewSession(bookingID, 30*60): StartTime is time.Now().
NewSession(b) ==
  [BookingID |-> b, Mentor |-> Nil, User |-> Nil, Done |-> FALSE,
   StartTime |-> now, MaxDuration |-> maxDuration]

Slot(s, r) == IF r = "mentor" THEN sess[s].Mentor ELSE sess[s].User
BothJoined(s) == sess[s].Mentor # Nil /\ sess[s].User # Nil
GetOtherClient(s, r) == IF r = "mentor" THEN sess[s].User ELSE sess[s].Mentor
GetSession(b) == sessions[b]

\* ------------------------------------------------------------------ locks
\* Hub.mu and Session.mu are sync.RWMutex.  A call of a Hub method that takes
\* h.mu.Lock() is named by the method and the client it is made for; a call
\* of a Session method that takes s.mu.RLock() is named by the method.
NoCall == <<"none", "none">>
HubCalls == {"AddClient", "RemoveClient"} \X {"M1", "U1"}
SessionCalls == {"BothJoined", "GetOtherClient", "SendToRole", "Broadcast",
                 "Close"}
\* An unlocked RWMutex: no writer, no readers.
Unlocked == [w |-> NoCall, r |-> {}]
\* No call has started; raced collects the Session calls during whose read
\* lock a role slot of their session was written.
LocksFree ==
  [hmu |-> Unlocked,
   smu |-> [s \in SessIds |-> Unlocked],
   hcall |-> [w \in HubCalls |-> "idle"],
   scall |-> [t \in SessionCalls |-> "idle"],
   raced |-> {}]

Init ==
  /\ sessions = [b \in Bookings |-> NilSess]
  /\ sess = [s \in SessIds |-> NoSession]
  /\ nextSess = 1
  /\ Send = [c \in Clients |-> <<>>]
  /\ sendClosed = [c \in Clients |-> FALSE]
  /\ doneClosed = [c \in Clients |-> FALSE]
  /\ connClosed = [c \in Clients |-> FALSE]
  /\ SessionReadySent = [c \in Clients |-> FALSE]
  /\ hpc = [c \in Clients |-> "idle"]
  /\ rpc = [c \in Clients |-> "off"]
  /\ wpc = [c \in Clients |-> "off"]
  /\ hSess = [c \in Clients |-> NilSess]
  /\ hOther = [c \in Clients |-> Nil]
  /\ rTarget = [c \in Clients |-> Nil]
  /\ rMsg = [c \in Clients |-> Nil]
  /\ lSess = [c \in Clients |-> NilSess]
  /\ lOther = [c \in Clients |-> Nil]
  /\ nFrames = 0
  /\ nCalls = 0
  /\ crashed = FALSE
  /\ enqLog = [c \in Clients |-> <<>>]
  /\ closeCalls = [c \in Clients |-> 0]
  /\ lastReg = [b \in Bookings |-> [r \in Roles |-> Nil]]
  /\ ignored = {}
  /\ messages = <<>>
  /\ MessageBufferActive = TRUE
  /\ PeerConnectionReady = FALSE
  /\ bpc = [g \in BufCallers |-> "idle"]
  /\ bMsg = [g \in BufCallers |-> Nil]
  /\ ret = [op |-> "none"]
  /\ added = <<>>
  /\ readySet = FALSE
  /\ flushedReady = FALSE
  /\ now = 0
  /\ bookingStatus = [b \in Bookings |-> IF b = "b1" THEN "confirmed" ELSE "pending"]
  /\ rec = [b \in Bookings |-> NoRecord]
  /\ reply = [op |-> "none"]
  /\ spc = [c \in SvcClients |-> "idle"]
  /\ epc = [e \in Enders |-> "idle"]
  /\ eDur = [e \in Enders |-> 0]
  /\ endRuns = [b \in Bookings |-> 0]
  /\ written = [c \in Clients |-> <<>>]
  /\ lk = LocksFree

\* ---------------------------------------------------------- Client.Close
\* close(c.Send); c.Conn.Close(); close(c.Done).  Closing the closed c.Send
\* panics before anything else is done.
ClosePanics(c) == sendClosed[c]

Close(c) ==
  /\ closeCalls' = [closeCalls EXCEPT ![c] = @ + 1]
  /\ IF ClosePanics(c)
       THEN UNCHANGED <<sendClosed, doneClosed, connClosed>>
       ELSE /\ sendClosed' = [sendClosed EXCEPT ![c] = TRUE]
            /\ connClosed' = [connClosed EXCEPT ![c] = TRUE]
            /\ doneClosed' = [doneClosed EXCEPT ![c] = TRUE]

\* ------------------------------------------------------------ Hub.AddClient
\* The session AddClient works on: the registered one or a new one.
AddClientSession(b) == IF sessions[b] # NilSess THEN sessions[b] ELSE nextSess

\* The occupant AddClient finds in the client's role slot.
OldOccupant(b, r) == IF sessions[b] = NilSess THEN Nil ELSE Slot(sessions[b], r)

\* Mutant: the ID comparison inverted.
IsDuplicate_SameID(old, c) == old # Nil /\ old = c
\* session.Mentor != nil && session.Mentor.ID != client.ID
IsDuplicate(old, c) == old # Nil /\ old # c

AddClientPanics(b, c) ==
  LET old == OldOccupant(b, ClientRole(c))
  IN IsDuplicate(old, c) /\ ClosePanics(old)

\* Mutant: an occupied slot keeps its occupant.
NewOccupant_KeepOld(old, c) == IF old # Nil THEN old ELSE c
\* The slot value AddClient stores.
NewOccupant(old, c) == c

AddClient(b, c) ==
  LET s == AddClientSession(b)
      r == ClientRole(c)
      old == OldOccupant(b, r)
      base == IF sessions[b] # NilSess THEN sess[s] ELSE NewSession(b)
  IN /\ s \in SessIds
     /\ sessions' = [sessions EXCEPT ![b] = s]
     /\ nextSess' = IF sessions[b] # NilSess THEN nextSess ELSE nextSess + 1
     /\ IF IsDuplicate(old, c) THEN Close(old) ELSE UNCHANGED closeVars
     /\ IF AddClientPanics(b, c)
          THEN /\ sess' = [sess EXCEPT ![s] = base]
               /\ UNCHANGED lastReg
          ELSE /\ sess' = [sess EXCEPT ![s] =
                     IF r = "mentor"
                       THEN [base EXCEPT !.Mentor = NewOccupant(old, c)]
                       ELSE [base EXCEPT !.User = NewOccupant(old, c)]]
               /\ lastReg' = [lastReg EXCEPT ![b][r] = c]

\* --------------------------------------------------------- Hub.RemoveClient
\* Mutant: the session is never deleted from the registry.
RemoveClient_KeepSession(b, r) ==
  IF sessions[b] = NilSess
    THEN UNCHANGED hubVars
    ELSE /\ sess' = [sess EXCEPT ![sessions[b]] =
                   IF r = "mentor" THEN [@ EXCEPT !.Mentor = Nil]
                   ELSE [@ EXCEPT !.User = Nil]]
         /\ UNCHANGED <<sessions, nextSess>>

RemoveClient(b, r) ==
  IF sessions[b] = NilSess
    THEN UNCHANGED hubVars
    ELSE LET s == sessions[b]
             cleared == IF r = "mentor" THEN [sess[s] EXCEPT !.Mentor = Nil]
                        ELSE [sess[s] EXCEPT !.User = Nil]
         IN /\ sess' = [sess EXCEPT ![s] = cleared]
            /\ sessions' = IF cleared.Mentor = Nil /\ cleared.User = Nil
                             THEN [sessions EXCEPT ![b] = NilSess]
                             ELSE sessions
            /\ UNCHANGED nextSess

\* ------------------------------------------------- non-blocking channel send
\* select { case c.Send <- m: default: }.  A send on a closed channel panics,
\* also when the buffer is full; a full open channel takes the default.
SendPanics(c) == sendClosed[c]
SendFits(c) == Len(Send[c]) < SendCap
Enqueued(c) == ~SendPanics(c) /\ SendFits(c)

TrySend(c, m) ==
  IF Enqueued(c)
    THEN /\ Send' = [Send EXCEPT ![c] = Append(@, m)]
         /\ enqLog' = [enqLog EXCEPT ![c] = Append(@, m)]
    ELSE UNCHANGED <<Send, enqLog>>

\* ------------------------------------------------------- HandleWebSocket
\* Lines 71-86: the client is built and registered.  A panic inside
\* AddClient leaves the handler goroutine dead with the hub unlocked.
HandleWebSocket(c) ==
  LET b == ClientBooking(c) IN
  /\ ~crashed
  /\ hpc[c] = "idle"
  /\ \A d \in RegistersAfter(c) : hpc[d] # "idle"
  /\ AddClient(b, c)
  /\ IF AddClientPanics(b, c)
       THEN /\ hpc' = [hpc EXCEPT ![c] = "panicked"]
            /\ UNCHANGED hSess
       ELSE /\ hpc' = [hpc EXCEPT ![c] = "joined"]
            /\ hSess' = [hSess EXCEPT ![c] = AddClientSession(b)]
  /\ UNCHANGED <<Send, SessionReadySent, rpc, wpc, hOther, rTarget, rMsg,
                 lSess, lOther, nFrames, nCalls, crashed, enqLog, ignored,
                 extVars>>

\* go h.readPump(client, session); go h.writePump(client)
PumpsStarted(c) ==
  /\ hpc' = [hpc EXCEPT ![c] = "done"]
  /\ rpc' = [rpc EXCEPT ![c] = "read"]
  /\ wpc' = [wpc EXCEPT ![c] = "run"]

HandlerGoesTo(c, l) ==
  /\ hpc' = [hpc EXCEPT ![c] = l]
  /\ UNCHANGED <<rpc, wpc>>

\* lines 124-134: the notice built for the joining client.
SessionReadyForNew(c, other) == SessionReadyMsg(Username(other), ClientRole(c))
\* lines 150-160: the notice built for the client already in the session.
SessionReadyForOther(c, other) ==
  SessionReadyMsg(Username(c), ClientRole(other))

\* sendSessionReady, lines 105-123: session.BothJoined(),
\* session.GetOtherClient(auth.Role), newClient's HasSessionReadySent() and,
\* when that one is set, otherClient's (line 149).  The four are reads of
\* different locations, each under its own read lock; no step of another
\* goroutine writes two of them, so reading them in one step loses no outcome
\* (a nil otherClient after BothJoined returns exactly as !BothJoined does).
sendSessionReady_Read(c) ==
  LET s == hSess[c]
      other == GetOtherClient(s, ClientRole(c))
  IN /\ ~crashed
     /\ hpc[c] = "joined"
     /\ IF ~BothJoined(s) \/ other = Nil
          THEN PumpsStarted(c) /\ UNCHANGED hOther
          ELSE IF ~SessionReadySent[c]
            THEN /\ HandlerGoesTo(c, "send_new")
                 /\ hOther' = [hOther EXCEPT ![c] = other]
          ELSE IF ~SessionReadySent[other]
            THEN /\ HandlerGoesTo(c, "send_other")
                 /\ hOther' = [hOther EXCEPT ![c] = other]
          ELSE PumpsStarted(c) /\ UNCHANGED hOther
     /\ UNCHANGED <<hubVars, chanVars, SessionReadySent, hSess, rTarget, rMsg,
                    lSess, lOther, nFrames, nCalls, crashed, histVars,
                    extVars>>

\* Mutant: the flag is set whether or not the notice was enqueued.
SetSessionReadySent_Always(c) == [SessionReadySent EXCEPT ![c] = TRUE]
\* lines 141 and 167: SetSessionReadySent(true) is in the send's case branch,
\* so it runs when the notice was enqueued and is skipped in the default
\* branch (messages.go lines 139-143).
SetSessionReadySent(c) ==
  IF Enqueued(c) THEN [SessionReadySent EXCEPT ![c] = TRUE]
  ELSE SessionReadySent

\* lines 136-149: the non-blocking send to the joining client, its flag set
\* when the message was enqueued, then otherClient's HasSessionReadySent().
sendSessionReady_SendNew(c) ==
  LET o == hOther[c] IN
  /\ ~crashed
  /\ hpc[c] = "send_new"
  /\ TrySend(c, SessionReadyForNew(c, o))
  /\ SessionReadySent' = SetSessionReadySent(c)
  /\ IF SendPanics(c)
       THEN HandlerGoesTo(c, "panicked") /\ hOther' = [hOther EXCEPT ![c] = Nil]
       ELSE IF ~SessionReadySent[o]
         THEN HandlerGoesTo(c, "send_other") /\ UNCHANGED hOther
         ELSE PumpsStarted(c) /\ hOther' = [hOther EXCEPT ![c] = Nil]
  /\ UNCHANGED <<hubVars, closeVars, hSess, rTarget, rMsg, lSess, lOther,
                 nFrames, nCalls, crashed, lastReg, ignored,
                 extVars>>

\* lines 162-171: the non-blocking send to the other client, its flag set
\* when the message was enqueued.
sendSessionReady_SendOther(c) ==
  LET o == hOther[c] IN
  /\ ~crashed
  /\ hpc[c] = "send_other"
  /\ TrySend(o, SessionReadyForOther(c, o))
  /\ SessionReadySent' = SetSessionReadySent(o)
  /\ IF SendPanics(o) THEN HandlerGoesTo(c, "panicked") ELSE PumpsStarted(c)
  /\ hOther' = [hOther EXCEPT ![c] = Nil]
  /\ UNCHANGED <<hubVars, closeVars, hSess, rTarget, rMsg, lSess, lOther,
                 nFrames, nCalls, crashed, lastReg, ignored,
                 extVars>>

\* ------------------------------------------------------------- readPump
\* The payload struct a relayed frame is decoded into.
Decode(f) ==
  IF f.type = "offer" THEN RTCOfferPayload(f.payload)
  ELSE IF f.type = "answer" THEN RTCAnswerPayload(f.payload)
  ELSE ICECandidatePayload(f.payload)

\* Mutant: the emptiness test removed.
MandatoryEmpty_Never(f) == FALSE
\* offerPayload.SDP == "" / answerPayload.SDP == "" / icePayload.Candidate == ""
MandatoryEmpty(f) ==
  IF f.type = "ice_candidate" THEN Decode(f).candidate = ""
  ELSE Decode(f).sdp = ""

\* Why readPump or a handle*Message function drops frame f ("" when kept).
IgnoreReason(f) ==
  IF f.type = "not_object" THEN "envelope"
  ELSE IF f.type \in {"offer", "answer", "ice_candidate"}
    THEN IF ~UnmarshalOk(f.payload) THEN "payload"
         ELSE IF MandatoryEmpty(f) THEN "empty" ELSE ""
  ELSE IF f.type \in {"leave_call", "ping", "invalid_json"} THEN ""
  ELSE "unknown"

\* The envelope handed to SendToRole for a kept offer/answer/ice_candidate.
RelayEnvelope(f) == [type |-> f.type, payload |-> Decode(f)]

ReaderGoesTo(c, l) == rpc' = [rpc EXCEPT ![c] = l]

\* lines 194-246: one iteration of the loop on frame f.  Frames already in
\* the connection's read buffer are still delivered after Conn.Close.
ReadFrame(c, f) ==
  LET target == Slot(hSess[c], OtherRole(ClientRole(c))) IN
  /\ ~crashed
  /\ rpc[c] = "read"
  /\ nFrames < MaxFrames
  /\ nFrames' = nFrames + 1
  /\ IF f.type \in {"invalid_json", "leave_call"}
       THEN \* ReadJSON error, or leave_call: return, the deferred cleanup runs
            /\ ReaderGoesTo(c, "left")
            /\ UNCHANGED <<Send, enqLog, rTarget, rMsg, crashed, ignored>>
       ELSE IF IgnoreReason(f) # ""
         THEN /\ ignored' = ignored \cup {IgnoreReason(f)}
              /\ UNCHANGED <<rpc, Send, enqLog, rTarget, rMsg, crashed>>
       ELSE IF f.type = "ping"
         THEN \* lines 230-239: pong on the client's own queue
              /\ TrySend(c, PongMsg)
              /\ crashed' = SendPanics(c)
              /\ UNCHANGED <<rpc, rTarget, rMsg, ignored>>
       ELSE \* SendToRole, part_003 lines 164-171: the slot read under RLock
            /\ IF target = Nil
                 THEN UNCHANGED <<rpc, rTarget, rMsg>>
                 ELSE /\ ReaderGoesTo(c, "send")
                      /\ rTarget' = [rTarget EXCEPT ![c] = target]
                      /\ rMsg' = [rMsg EXCEPT ![c] = RelayEnvelope(f)]
            /\ UNCHANGED <<Send, enqLog, crashed, ignored>>
  /\ UNCHANGED <<hubVars, closeVars, SessionReadySent, hpc, wpc, hSess,
                 hOther, lSess, lOther, nCalls, lastReg,
                 extVars>>

\* SendToRole, part_003 lines 173-178: the non-blocking send to the client
\* read before.
SendToRole_Send(c) ==
  /\ ~crashed
  /\ rpc[c] = "send"
  /\ TrySend(rTarget[c], rMsg[c])
  /\ crashed' = SendPanics(rTarget[c])
  /\ ReaderGoesTo(c, "read")
  /\ rTarget' = [rTarget EXCEPT ![c] = Nil]
  /\ rMsg' = [rMsg EXCEPT ![c] = Nil]
  /\ UNCHANGED <<hubVars, closeVars, SessionReadySent, hpc, wpc, hSess,
                 hOther, lSess, lOther, nFrames, nCalls, lastReg, ignored,
                 extVars>>

\* lines 196-202: ReadJSON fails (closed connection, network error, read
\* deadline): return, the deferred cleanup runs.
ReadError(c) ==
  /\ ~crashed
  /\ rpc[c] = "read"
  /\ ReaderGoesTo(c, "left")
  /\ UNCHANGED <<hubVars, chanVars, SessionReadySent, hpc, wpc, localVars,
                 nFrames, nCalls, crashed, histVars,
                 extVars>>

\* ----------------------------------------------------- HandleClientLeft
\* part_002 line 186: session := s.hub.GetSession(bookingID)
HandleClientLeft_GetSession(c) ==
  LET s == GetSession(ClientBooking(c)) IN
  /\ ~crashed
  /\ rpc[c] = "left"
  /\ lSess' = [lSess EXCEPT ![c] = s]
  /\ ReaderGoesTo(c, IF s = NilSess THEN "remove" ELSE "get_other")
  /\ UNCHANGED <<hubVars, chanVars, SessionReadySent, hpc, wpc, hSess,
                 hOther, rTarget, rMsg, lOther, nFrames, nCalls, crashed,
                 histVars,
                 extVars>>

\* line 189: otherParty := session.GetOtherClient(role)
HandleClientLeft_GetOther(c) ==
  LET o == GetOtherClient(lSess[c], ClientRole(c)) IN
  /\ ~crashed
  /\ rpc[c] = "get_other"
  /\ lOther' = [lOther EXCEPT ![c] = o]
  /\ ReaderGoesTo(c, IF o = Nil THEN "remove" ELSE "notify")
  /\ UNCHANGED <<hubVars, chanVars, SessionReadySent, hpc, wpc, hSess,
                 hOther, rTarget, rMsg, lSess, nFrames, nCalls, crashed,
                 histVars,
                 extVars>>

\* lines 191-201: non-blocking send of other_party_left to otherParty
HandleClientLeft_Notify(c) ==
  /\ ~crashed
  /\ rpc[c] = "notify"
  /\ TrySend(lOther[c], OtherPartyLeftMsg(ClientBooking(c)))
  /\ crashed' = SendPanics(lOther[c])
  /\ ReaderGoesTo(c, "close_other")
  /\ UNCHANGED <<hubVars, closeVars, SessionReadySent, hpc, wpc, localVars,
                 nFrames, nCalls, lastReg, ignored,
                 extVars>>

\* line 204: otherParty.Close()
HandleClientLeft_Close(c) ==
  /\ ~crashed
  /\ rpc[c] = "close_other"
  /\ Close(lOther[c])
  /\ crashed' = ClosePanics(lOther[c])
  /\ ReaderGoesTo(c, "remove")
  /\ lOther' = [lOther EXCEPT ![c] = Nil]
  /\ UNCHANGED <<hubVars, Send, SessionReadySent, hpc, wpc, hSess, hOther,
                 rTarget, rMsg, lSess, nFrames, nCalls, enqLog, lastReg,
                 ignored,
                 extVars>>

\* line 212: s.hub.RemoveClient(bookingID, role)
HandleClientLeft_Remove(c) ==
  /\ ~crashed
  /\ rpc[c] = "remove"
  /\ RemoveClient(ClientBooking(c), ClientRole(c))
  /\ ReaderGoesTo(c, "cleanup")
  /\ lSess' = [lSess EXCEPT ![c] = NilSess]
  /\ UNCHANGED <<chanVars, SessionReadySent, hpc, wpc, hSess, hOther,
                 rTarget, rMsg, lOther, nFrames, nCalls, crashed, histVars,
                 extVars>>

\* readPump's deferred function, handler lines 184-185:
\* h.hub.RemoveClient(client.BookingID, client.Role); client.Conn.Close()
readPump_Cleanup(c) ==
  /\ ~crashed
  /\ rpc[c] = "cleanup"
  /\ RemoveClient(ClientBooking(c), ClientRole(c))
  /\ connClosed' = [connClosed EXCEPT ![c] = TRUE]
  /\ ReaderGoesTo(c, "exited")
  /\ UNCHANGED <<Send, sendClosed, doneClosed, SessionReadySent, hpc, wpc,
                 localVars, nFrames, nCalls, crashed, histVars,
                 extVars>>

\* ------------------------------------------------------------ writePump
\* Every return runs the deferred client.Conn.Close().
WriterExits(c) ==
  /\ wpc' = [wpc EXCEPT ![c] = "exited"]
  /\ connClosed' = [connClosed EXCEPT ![c] = TRUE]

\* Mutant: a received message stays in the channel.
AfterReceive_Keep(q) == q
\* message, ok := <-client.Send takes the oldest message out of the channel.
AfterReceive(q) == Tail(q)

\* lines 362-372: a message is received from client.Send and written; the
\* write fails on a closed connection and may fail on an open one.
writePump_Message(c) ==
  /\ ~crashed
  /\ wpc[c] = "run"
  /\ Len(Send[c]) > 0
  /\ Send' = [Send EXCEPT ![c] = AfterReceive(@)]
  /\ \E ok \in BOOLEAN :
       /\ ok => ~connClosed[c]
       /\ IF ok
            THEN /\ written' = [written EXCEPT ![c] = Append(@, Head(Send[c]))]
                 /\ UNCHANGED <<wpc, connClosed>>
            ELSE /\ WriterExits(c)
                 /\ UNCHANGED written
  /\ UNCHANGED <<hubVars, sendClosed, doneClosed, SessionReadySent, hpc, rpc,
                 localVars, nFrames, nCalls, crashed, histVars, bufVars,
                 dbVars, lk>>

\* lines 364-367: client.Send is closed and drained
writePump_SendClosed(c) ==
  /\ ~crashed
  /\ wpc[c] = "run"
  /\ Len(Send[c]) = 0
  /\ sendClosed[c]
  /\ WriterExits(c)
  /\ UNCHANGED <<hubVars, Send, sendClosed, doneClosed, SessionReadySent,
                 hpc, rpc, localVars, nFrames, nCalls, crashed, histVars,
                 extVars>>

\* lines 381-383: client.Done is closed
writePump_Done(c) ==
  /\ ~crashed
  /\ wpc[c] = "run"
  /\ doneClosed[c]
  /\ WriterExits(c)
  /\ UNCHANGED <<hubVars, Send, sendClosed, doneClosed, SessionReadySent,
                 hpc, rpc, localVars, nFrames, nCalls, crashed, histVars,
                 extVars>>

\* lines 374-379: the keepalive ping cannot be written on the closed
\* connection
writePump_PingFails(c) ==
  /\ ~crashed
  /\ wpc[c] = "run"
  /\ connClosed[c]
  /\ WriterExits(c)
  /\ UNCHANGED <<hubVars, Send, sendClosed, doneClosed, SessionReadySent,
                 hpc, rpc, localVars, nFrames, nCalls, crashed, histVars,
                 extVars>>

\* ------------------------------------------------ Session.SendToRole etc.
\* part_003 lines 163-179 as one call: the slot is read and the message is
\* sent to the client found there.
SendToRole(s, r, m) ==
  LET client == Slot(s, r) IN
  IF client = Nil THEN UNCHANGED <<Send, enqLog>> ELSE TrySend(client, m)

SendToRolePanics(s, r) == Slot(s, r) # Nil /\ SendPanics(Slot(s, r))

\* part_003 lines 141-160: mentor first, then user.
BroadcastPanics(s) ==
  SendToRolePanics(s, "mentor") \/ SendToRolePanics(s, "user")

Broadcast(s, m) ==
  LET mentor == sess[s].Mentor
      user == sess[s].User
      toMentor == mentor # Nil /\ Enqueued(mentor)
      toUser == /\ user # Nil
                /\ ~SendToRolePanics(s, "mentor")
                /\ Enqueued(user)
      put(q, c) == IF (c = mentor /\ toMentor) \/ (c = user /\ toUser)
                     THEN Append(q, m) ELSE q
  IN /\ Send' = [c \in Clients |-> put(Send[c], c)]
     /\ enqLog' = [c \in Clients |-> put(enqLog[c], c)]

\* part_003 lines 182-196: close(s.Done), then Close of both occupants.  The
\* first panic (closed s.Done, closed mentor, closed user) ends the call.
SessionClosePanics(s) ==
  \/ sess[s].Done
  \/ sess[s].Mentor # Nil /\ ClosePanics(sess[s].Mentor)
  \/ sess[s].User # Nil /\ ClosePanics(sess[s].User)

SessionClose(s) ==
  LET mentor == sess[s].Mentor
      user == sess[s].User
      callsMentor == ~sess[s].Done /\ mentor # Nil
      callsUser == /\ ~sess[s].Done
                   /\ user # Nil
                   /\ ~(mentor # Nil /\ ClosePanics(mentor))
      closes(c) == \/ c = mentor /\ callsMentor /\ ~ClosePanics(c)
                   \/ c = user /\ callsUser /\ ~ClosePanics(c)
      called(c) == (c = mentor /\ callsMentor) \/ (c = user /\ callsUser)
  IN /\ sess' = [sess EXCEPT ![s].Done = TRUE]
     /\ sendClosed' = [c \in Clients |-> sendClosed[c] \/ closes(c)]
     /\ connClosed' = [c \in Clients |-> connClosed[c] \/ closes(c)]
     /\ doneClosed' = [c \in Clients |-> doneClosed[c] \/ closes(c)]
     /\ closeCalls' = [c \in Clients |->
                         IF called(c) THEN closeCalls[c] + 1 ELSE closeCalls[c]]

\* --------------------------------------------- the registry called directly
\* The exported operations of Hub and Session called one after the other, as
\* a test of package websocket would call them.
Allocated(s) == s \in SessIds /\ sess[s].BookingID # Nil
ApiMessages == {PongMsg, OtherPartyLeftMsg("b1")}

ApiCall == ~crashed /\ nCalls < MaxCalls /\ nCalls' = nCalls + 1

Hub_AddClient(c) ==
  /\ ApiCall
  /\ AddClient(ClientBooking(c), c)
  /\ crashed' = AddClientPanics(ClientBooking(c), c)
  /\ UNCHANGED <<Send, SessionReadySent, pcVars, localVars, nFrames, enqLog,
                 ignored,
                 extVars>>

Hub_RemoveClient(b, r) ==
  /\ ApiCall
  /\ RemoveClient(b, r)
  /\ UNCHANGED <<chanVars, SessionReadySent, pcVars, localVars, nFrames,
                 crashed, histVars,
                 extVars>>

Session_SendToRole(s, r, m) ==
  /\ ApiCall
  /\ Allocated(s)
  /\ SendToRole(s, r, m)
  /\ crashed' = SendToRolePanics(s, r)
  /\ UNCHANGED <<hubVars, closeVars, SessionReadySent, pcVars, localVars,
                 nFrames, lastReg, ignored,
                 extVars>>

Session_Broadcast(s, m) ==
  /\ ApiCall
  /\ Allocated(s)
  /\ Broadcast(s, m)
  /\ crashed' = BroadcastPanics(s)
  /\ UNCHANGED <<hubVars, closeVars, SessionReadySent, pcVars, localVars,
                 nFrames, lastReg, ignored,
                 extVars>>

Session_Close(s) ==
  /\ ApiCall
  /\ Allocated(s)
  /\ SessionClose(s)
  /\ crashed' = SessionClosePanics(s)
  /\ UNCHANGED <<sessions, nextSess, Send, SessionReadySent, pcVars,
                 localVars, nFrames, enqLog, lastReg, ignored,
                 extVars>>

NextHub ==
  \/ \E c \in Clients : Hub_AddClient(c)
  \/ \E b \in Bookings, r \in Roles : Hub_RemoveClient(b, r)
  \/ \E s \in SessIds, r \in Roles, m \in ApiMessages :
       Session_SendToRole(s, r, m)
  \/ \E s \in SessIds, m \in ApiMessages : Session_Broadcast(s, m)
  \/ \E s \in SessIds : Session_Close(s)
SpecHub == Init /\ [][NextHub]_vars

\* The goroutines of the connections in CS.
Handlers(CS) ==
  \/ \E c \in CS : HandleWebSocket(c)
  \/ \E c \in CS : sendSessionReady_Read(c)
  \/ \E c \in CS : sendSessionReady_SendNew(c)
  \/ \E c \in CS : sendSessionReady_SendOther(c)

Readers(CS, FS) ==
  \/ \E c \in CS, f \in FS : ReadFrame(c, f)
  \/ \E c \in CS : SendToRole_Send(c)
  \/ \E c \in CS : ReadError(c)
  \/ \E c \in CS : HandleClientLeft_GetSession(c)
  \/ \E c \in CS : HandleClientLeft_GetOther(c)
  \/ \E c \in CS : HandleClientLeft_Notify(c)
  \/ \E c \in CS : HandleClientLeft_Close(c)
  \/ \E c \in CS : HandleClientLeft_Remove(c)
  \/ \E c \in CS : readPump_Cleanup(c)

Writers(CS) ==
  \/ \E c \in CS : writePump_Message(c)
  \/ \E c \in CS : writePump_SendClosed(c)
  \/ \E c \in CS : writePump_Done(c)
  \/ \E c \in CS : writePump_PingFails(c)

\* One mentor connection and one user connection on booking b1.
PairClients == {"M1", "U1"}
Next ==
  Handlers(PairClients) \/ Readers(PairClients, Frames) \/ Writers(PairClients)
Spec == Init /\ [][Next]_vars

\* The mentor connects twice (M1, then M2) while the user is connected; the
\* parties send valid offers and pings, and only the user's writePump is
\* scheduled.
DupFrames ==
  { [type |-> "offer", payload |-> [sdp |-> "v=0"]],
    [type |-> "ping", payload |-> EmptyPayload] }
NextDup ==
  Handlers(PumpClients) \/ Readers(PumpClients, DupFrames) \/ Writers({"U1"})
SpecDup == Init /\ [][NextDup]_vars

\* ------------------------------------------- MessageBuffer, ConnectionState
\* Everything but nCalls and the buffer.
connVars == <<hubVars, chanVars, SessionReadySent, pcVars, localVars, nFrames,
              crashed, histVars, written, lk>>

\* Mutant: the capacity test off by one.
BufferFull_OffByOne(q) == Len(q) > maxSize
\* len(mb.messages) >= mb.maxSize
BufferFull(q) == Len(q) >= maxSize

\* MessageBuffer.Add under mb.mu: the error returned and the new contents.
AddError(q) == IF BufferFull(q) THEN "ErrMessageBufferFull" ELSE "nil"
AddResult(q, m) == IF BufferFull(q) THEN q ELSE Append(q, m)

\* Mutant: SetPeerConnectionReady(false) switches buffering on again.
ActiveAfterSet_Toggle(active, ready) == ~ready
\* if ready { cs.MessageBufferActive = false }
ActiveAfterSet(active, ready) == IF ready THEN FALSE ELSE active

MessageBuffer_Add(m) ==
  /\ ApiCall
  /\ messages' = AddResult(messages, m)
  /\ ret' = [op |-> "Add", val |-> AddError(messages)]
  /\ added' = IF ret'.val = "nil" THEN Append(added, m) ELSE added
  /\ UNCHANGED <<connVars, dbVars, MessageBufferActive, PeerConnectionReady, bpc,
                 bMsg, readySet, flushedReady>>

\* MessageBuffer.Flush, also reached through ConnectionState.FlushBuffer.
MessageBuffer_Flush ==
  /\ ApiCall
  /\ ret' = [op |-> "Flush", val |-> messages]
  /\ messages' = <<>>
  /\ added' = <<>>
  /\ flushedReady' = (flushedReady \/ readySet)
  /\ UNCHANGED <<connVars, dbVars, MessageBufferActive, PeerConnectionReady, bpc,
                 bMsg, readySet>>

SetPeerConnectionReady(ready) ==
  /\ ApiCall
  /\ PeerConnectionReady' = ready
  /\ MessageBufferActive' = ActiveAfterSet(MessageBufferActive, ready)
  /\ readySet' = (readySet \/ ready)
  /\ ret' = [op |-> "SetPeerConnectionReady", val |-> ready]
  /\ UNCHANGED <<connVars, dbVars, messages, bpc, bMsg, added, flushedReady>>

\* BufferMessage, lines 148-154: MessageBufferActive is read under cs.mu and
\* the lock is released; an inactive buffer returns false.
BufferMessage_Read(g, m) ==
  /\ ApiCall
  /\ bpc[g] = "idle"
  /\ IF MessageBufferActive
       THEN /\ bpc' = [bpc EXCEPT ![g] = "add"]
            /\ bMsg' = [bMsg EXCEPT ![g] = m]
            /\ UNCHANGED ret
       ELSE /\ ret' = [op |-> "BufferMessage", val |-> FALSE]
            /\ UNCHANGED <<bpc, bMsg>>
  /\ UNCHANGED <<connVars, dbVars, messages, MessageBufferActive,
                 PeerConnectionReady, added, readySet, flushedReady>>

\* BufferMessage, lines 156-157: messageBuffer.Add(msg) outside cs.mu.
BufferMessage_Add(g) ==
  /\ ~crashed
  /\ bpc[g] = "add"
  /\ messages' = AddResult(messages, bMsg[g])
  /\ ret' = [op |-> "BufferMessage", val |-> (AddError(messages) = "nil")]
  /\ added' = IF ret'.val THEN Append(added, bMsg[g]) ELSE added
  /\ bpc' = [bpc EXCEPT ![g] = "idle"]
  /\ bMsg' = [bMsg EXCEPT ![g] = Nil]
  /\ UNCHANGED <<connVars, dbVars, nCalls, MessageBufferActive, PeerConnectionReady,
                 readySet, flushedReady>>

NextBuf ==
  \/ \E m \in ApiMessages : MessageBuffer_Add(m)
  \/ MessageBuffer_Flush
  \/ \E ready \in BOOLEAN : SetPeerConnectionReady(ready)
  \/ \E g \in BufCallers, m \in ApiMessages : BufferMessage_Read(g, m)
  \/ \E g \in BufCallers : BufferMessage_Add(g)
SpecBuf == Init /\ [][NextBuf]_vars

\* ------------------------------------------------ bookings and their owners
\* bookings.user_id and bookings.mentor_id (a mentor profile ID).
BookingUserID(b) == IF b = "b1" THEN "bob" ELSE "dave"
BookingMentorID(b) == IF b = "b1" THEN "mp_alice" ELSE "mp_carol"
\* mentorRepo.FindByUserID: the mentor profile of a user, Nil when none.
MentorProfile(u) ==
  IF u = "alice" THEN "mp_alice" ELSE IF u = "carol" THEN "mp_carol" ELSE Nil
\* The authenticated user behind a connection.
ClientUser(c) == Username(c)

\* WebSocketAuthMiddleware: the role derived from booking ownership, "" when
\* the user owns the booking in neither way.
DeriveRole(u, b) ==
  IF MentorProfile(u) # Nil /\ BookingMentorID(b) = MentorProfile(u) THEN "mentor"
  ELSE IF BookingUserID(b) = u THEN "user"
  ELSE ""

\* The scheduled window of every booking, as clock readings.
WindowStart == 1
WindowEnd == 1
\* utils.ValidateSessionTime: the current time falls within the window.
ValidateSessionTime(t) == WindowStart <= t /\ t <= WindowEnd

\* ---------------------------------------------------- VideoSessionRepository
\* Columns id, created_at and updated_at are written and never read.
NewRecord(b) ==
  [booking_id |-> b, mentor_id |-> BookingMentorID(b),
   user_id |-> BookingUserID(b), status |-> "waiting",
   session_started_at |-> NullTime, session_ended_at |-> NullTime,
   mentor_joined_at |-> NullTime, user_joined_at |-> NullTime,
   mentor_left_at |-> NullTime, user_left_at |-> NullTime,
   duration_seconds |-> 0]

\* UPDATE ... WHERE booking_id = $1 changes nothing when there is no row.
RecordMentorJoined(b) ==
  IF rec[b] = NoRecord THEN rec ELSE [rec EXCEPT ![b].mentor_joined_at = now]
RecordUserJoined(b) ==
  IF rec[b] = NoRecord THEN rec ELSE [rec EXCEPT ![b].user_joined_at = now]
RecordMentorLeft(b) ==
  IF rec[b] = NoRecord THEN rec ELSE [rec EXCEPT ![b].mentor_left_at = now]
RecordUserLeft(b) ==
  IF rec[b] = NoRecord THEN rec ELSE [rec EXCEPT ![b].user_left_at = now]

\* The row after the repository's EndSession; reason is bound to no column.
EndSessionRow(r, durationSeconds, reason) ==
  [r EXCEPT !.session_ended_at = now,
            !.duration_seconds = durationSeconds,
            !.status = "completed"]

\* The row after MarkActive: WHERE booking_id = $2 AND status = 'waiting'.
MarkActiveRow(r) ==
  IF r.status = "waiting"
    THEN [r EXCEPT !.session_started_at = now, !.status = "active"]
    ELSE r

\* ------------------------------------------------------ VideoSessionService
\* Everything but the request counter, the buffer and the persistence state.
svcFrame == <<Send, SessionReadySent, pcVars, localVars, nFrames, ignored,
              written, lk>>

Tick ==
  /\ ~crashed
  /\ now < MaxNow
  /\ now' = now + 1
  /\ UNCHANGED <<connVars, nCalls, bufVars, bookingStatus, rec, reply, spc,
                 epc, eDur, endRuns>>

\* WebSocketAuthMiddleware, lines 109-115: no role, 403, the handler is not
\* reached.
WebSocketAuthMiddleware_Forbidden(u, b) ==
  /\ ~crashed
  /\ DeriveRole(u, b) = ""
  /\ reply' = [op |-> "ws", status |-> 403]
  /\ UNCHANGED <<connVars, nCalls, bufVars, now, bookingStatus, rec, spc,
                 epc, eDur, endRuns>>

\* HandleClientJoined
HandleClientJoined(c) ==
  IF ClientRole(c) = "mentor"
    THEN RecordMentorJoined(ClientBooking(c))
    ELSE RecordUserJoined(ClientBooking(c))

\* A connection of an owner: the middleware derives the role, HandleWebSocket
\* registers the client (line 86) and HandleClientJoined stamps the row
\* (line 92).  The session_ready notices and the pumps are followed in Spec.
WebSocket_Connect(c) ==
  /\ ~crashed
  /\ spc[c] = "idle"
  /\ DeriveRole(ClientUser(c), ClientBooking(c)) = ClientRole(c)
  /\ AddClient(ClientBooking(c), c)
  /\ rec' = HandleClientJoined(c)
  /\ spc' = [spc EXCEPT ![c] =
               IF AddClientPanics(ClientBooking(c), c) THEN "dead" ELSE "open"]
  /\ UNCHANGED <<svcFrame, enqLog, nCalls, crashed, bufVars, now, reply,
                 bookingStatus, epc, eDur, endRuns>>

\* HandleClientLeft, lines 179-183.
ClientLeft_Record(c) ==
  /\ ~crashed
  /\ spc[c] = "open"
  /\ rec' = IF ClientRole(c) = "mentor"
              THEN RecordMentorLeft(ClientBooking(c))
              ELSE RecordUserLeft(ClientBooking(c))
  /\ spc' = [spc EXCEPT ![c] = "left"]
  /\ UNCHANGED <<connVars, nCalls, bufVars, now, bookingStatus, reply, epc, eDur, endRuns>>

\* HandleClientLeft, lines 186-208: the other party is told and closed, and
\* EndSession is entered, when the registry still has the session.
ClientLeft_Notify(c) ==
  LET b == ClientBooking(c)
      s == GetSession(b)
      other == IF s = NilSess THEN Nil ELSE GetOtherClient(s, ClientRole(c))
  IN /\ ~crashed
     /\ spc[c] = "left"
     /\ spc' = [spc EXCEPT ![c] = "end"]
     /\ IF s = NilSess
          THEN epc' = [epc EXCEPT ![c] = "done"]
          ELSE epc' = [epc EXCEPT ![c] = "read"]
     /\ IF other = Nil
          THEN UNCHANGED <<Send, enqLog, closeVars, crashed>>
          ELSE IF SendPanics(other)
            THEN crashed' = TRUE /\ UNCHANGED <<Send, enqLog, closeVars>>
            ELSE /\ TrySend(other, OtherPartyLeftMsg(b))
                 /\ Close(other)
                 /\ crashed' = ClosePanics(other)
     /\ UNCHANGED <<hubVars, SessionReadySent, pcVars, localVars, nFrames,
                    lastReg, ignored, written, lk, nCalls, bufVars, now,
                    bookingStatus, rec, reply, eDur, endRuns>>

\* The reason HandleClientLeft ends the session with.
PartyLeft == "party_left"

\* duration := 0; if started and not ended, the time since the start.
Duration(r) ==
  IF r.session_started_at # NullTime /\ r.session_ended_at = NullTime
    THEN now - r.session_started_at
    ELSE 0

\* EndSession, lines 241-250: the row is read and the duration computed; no
\* row is an error returned to the caller.
EndSession_Read(e) ==
  /\ ~crashed
  /\ epc[e] = "read"
  /\ IF rec[ClientBooking(e)] = NoRecord
       THEN /\ epc' = [epc EXCEPT ![e] = "done"]
            /\ UNCHANGED eDur
       ELSE /\ epc' = [epc EXCEPT ![e] = "write"]
            /\ eDur' = [eDur EXCEPT ![e] = Duration(rec[ClientBooking(e)])]
  /\ UNCHANGED <<connVars, nCalls, bufVars, now, bookingStatus, rec, reply,
                 spc, endRuns>>

\* Mutant: ending the session completes the booking as well.
BookingAfterEnd_Completed(status) == "completed"
\* Lines 258-261: the booking is left as it is.
BookingAfterEnd(status) == status

\* EndSession, lines 253-262: the repository's UPDATE.
EndSession_Write(e) ==
  /\ ~crashed
  /\ epc[e] = "write"
  /\ rec' = [rec EXCEPT ![ClientBooking(e)] = EndSessionRow(@, eDur[e], PartyLeft)]
  /\ bookingStatus' = [bookingStatus EXCEPT ![ClientBooking(e)] = BookingAfterEnd(@)]
  /\ endRuns' = [endRuns EXCEPT ![ClientBooking(e)] = @ + 1]
  /\ epc' = [epc EXCEPT ![e] = "done"]
  /\ UNCHANGED <<connVars, nCalls, bufVars, now, reply, spc, eDur>>

\* HandleClientLeft, line 212.
ClientLeft_Remove(c) ==
  /\ ~crashed
  /\ spc[c] = "end"
  /\ epc[c] = "done"
  /\ RemoveClient(ClientBooking(c), ClientRole(c))
  /\ spc' = [spc EXCEPT ![c] = "gone"]
  /\ epc' = [epc EXCEPT ![c] = "idle"]
  /\ UNCHANGED <<chanVars, SessionReadySent, pcVars, localVars, nFrames,
                 crashed, histVars, written, lk, nCalls, bufVars, now,
                 bookingStatus, rec, reply, eDur, endRuns>>

\* VideoSessionRepository.MarkActive; no caller in the files at hand.
MarkActive(b) ==
  /\ ~crashed
  /\ rec[b] # NoRecord
  /\ rec' = [rec EXCEPT ![b] = MarkActiveRow(@)]
  /\ UNCHANGED <<connVars, nCalls, bufVars, now, bookingStatus, reply, spc, epc, eDur, endRuns>>

\* ------------------------------------------------------------ GetSessionInfo
\* The role query parameter: absent, the two roles, anything else.
QueryRoles == {"", "user", "mentor", "admin"}
Timezones == {"", "Asia/Kolkata", "Mars/Phobos"}
LoadLocationOk(tz) == tz = "Asia/Kolkata"

\* role := "user", overwritten by a non-empty query parameter.
RequestRole(q) == IF q # "" THEN q ELSE "user"

\* ValidateAndStartSession, lines 56-99: the error it returns, "" when none.
ValidationError(b, u, role, tz) ==
  IF role = "user" /\ BookingUserID(b) # u THEN "unauthorized"
  ELSE IF role = "mentor"
          /\ (MentorProfile(u) = Nil \/ BookingMentorID(b) # MentorProfile(u))
    THEN "unauthorized"
  ELSE IF bookingStatus[b] # "confirmed" THEN "booking must be confirmed"
  ELSE IF ~LoadLocationOk(tz) THEN "invalid timezone"
  ELSE ""

\* Lines 124-137: the other party as the registry shows it.
OtherParty(b, role) ==
  IF rec[b] = NoRecord \/ GetSession(b) = NilSess
    THEN Nil
    ELSE GetOtherClient(GetSession(b), role)

\* The SessionInfoResponse, or the error.
SessionInfo(b, u, role, tz) ==
  LET err == ValidationError(b, u, role, tz)
      other == OtherParty(b, role)
  IN IF err # ""
       THEN [op |-> "GetSessionInfo", error |-> err,
             CanJoin |-> FALSE, OtherPartyJoined |-> FALSE,
             OtherPartyName |-> "", created |-> FALSE]
     ELSE IF ~ValidateSessionTime(now)
       THEN [op |-> "GetSessionInfo", error |-> "",
             CanJoin |-> FALSE, OtherPartyJoined |-> FALSE,
             OtherPartyName |-> "", created |-> FALSE]
     ELSE [op |-> "GetSessionInfo", error |-> "",
           CanJoin |-> TRUE, OtherPartyJoined |-> (other # Nil),
           OtherPartyName |-> IF other # Nil THEN Username(other) ELSE "",
           created |-> (rec[b] = NoRecord)]

GetSessionInfo(u, b, q, tz) ==
  /\ ~crashed
  /\ reply' = IF tz = ""
                THEN [op |-> "GetSessionInfo",
                      error |-> "booking_id and timezone required",
                      CanJoin |-> FALSE, OtherPartyJoined |-> FALSE,
                      OtherPartyName |-> "", created |-> FALSE]
                ELSE SessionInfo(b, u, RequestRole(q), tz)
  /\ rec' = IF reply'.created THEN [rec EXCEPT ![b] = NewRecord(b)] ELSE rec
  /\ UNCHANGED <<connVars, nCalls, bufVars, now, bookingStatus, spc, epc, eDur, endRuns>>

\* The requests a connection's own front end makes before it connects.
OwnRequest(c) ==
  GetSessionInfo(ClientUser(c), ClientBooking(c), ClientRole(c), "Asia/Kolkata")

\* Eligibility and connection requests of any party.
NextJoin ==
  \/ Tick
  \/ \E u \in Users, b \in Bookings : WebSocketAuthMiddleware_Forbidden(u, b)
  \/ \E c \in SvcClients : WebSocket_Connect(c)
  \/ \E u \in Users, b \in Bookings, q \in QueryRoles, tz \in Timezones :
       GetSessionInfo(u, b, q, tz)
SpecJoin == Init /\ [][NextJoin]_vars

\* The two parties of b1 from eligibility to the end of the call.
NextSvc ==
  \/ Tick
  \/ \E c \in PairClients : OwnRequest(c)
  \/ \E c \in PairClients : WebSocket_Connect(c)
  \/ \E c \in PairClients : ClientLeft_Record(c)
  \/ \E c \in PairClients : ClientLeft_Notify(c)
  \/ \E e \in PairClients : EndSession_Read(e)
  \/ \E e \in PairClients : EndSession_Write(e)
  \/ \E c \in PairClients : ClientLeft_Remove(c)
  \/ \E b \in Bookings : MarkActive(b)
SpecSvc == Init /\ [][NextSvc]_vars

\* --------------------------------------------- SendToRole and the writers
\* Connections of one booking, any caller of SendToRole and of Close, and the
\* outbound loops of the connections.
NextOrd ==
  \/ Handlers(PairClients)
  \/ Writers(PairClients)
  \/ \E s \in SessIds, r \in Roles, m \in ApiMessages : Session_SendToRole(s, r, m)
  \/ \E s \in SessIds : Session_Close(s)
SpecOrd == Init /\ [][NextOrd]_vars

\* ------------------------------------------------ the registry's locking
\* Everything but the locks and what AddClient and RemoveClient write.
lockFrame == <<Send, SessionReadySent, pcVars, localVars, nFrames, nCalls,
               enqLog, ignored, bufVars, dbVars, written>>

\* sync.RWMutex: Lock waits until there is neither writer nor reader.
CanLock(m) == m.w = NoCall /\ m.r = {}
\* sync.RWMutex: RLock waits until there is no writer.
CanRLock(m) == m.w = NoCall

\* part_003 lines 64 and 101: h.mu.Lock()
Hub_mu_Lock(w) ==
  /\ ~crashed
  /\ lk.hcall[w] = "idle"
  /\ CanLock(lk.hmu)
  /\ lk' = [lk EXCEPT !.hmu.w = w, !.hcall[w] = "locked"]
  /\ UNCHANGED <<hubVars, closeVars, crashed, lastReg, lockFrame>>

\* The holder of session s's write lock while Hub call w writes a slot of s:
\* neither AddClient nor RemoveClient calls session.mu.Lock(), and no other
\* code does.
WriterHolds(w, s) == lk.smu[s].w

\* The Session calls holding the read lock of s when a slot of s is written
\* by a writer who holds that lock as h: none when the writer holds it.
Interleaved(h, s) == IF h # NoCall THEN {} ELSE lk.smu[s].r

\* part_003 lines 67-89: AddClient's body under h.mu, then the deferred
\* h.mu.Unlock().
Locked_AddClient(c) ==
  LET w == <<"AddClient", c>>
      s == AddClientSession(ClientBooking(c))
  IN /\ ~crashed
     /\ lk.hcall[w] = "locked"
     /\ AddClient(ClientBooking(c), c)
     /\ crashed' = AddClientPanics(ClientBooking(c), c)
     /\ lk' = [lk EXCEPT !.hmu.w = NoCall, !.hcall[w] = "done",
                         !.raced = @ \cup Interleaved(WriterHolds(w, s), s)]
     /\ UNCHANGED lockFrame

\* part_003 lines 104-119: RemoveClient's body under h.mu, then the deferred
\* h.mu.Unlock().  It is called with the client's booking and role.
Locked_RemoveClient(c) ==
  LET w == <<"RemoveClient", c>>
      s == sessions[ClientBooking(c)]
  IN /\ ~crashed
     /\ lk.hcall[w] = "locked"
     /\ RemoveClient(ClientBooking(c), ClientRole(c))
     /\ lk' = [lk EXCEPT !.hmu.w = NoCall, !.hcall[w] = "done",
                         !.raced = IF s = NilSess THEN @
                                   ELSE @ \cup Interleaved(WriterHolds(w, s), s)]
     /\ UNCHANGED <<closeVars, crashed, lastReg, lockFrame>>

\* s.mu.RLock() of BothJoined, GetOtherClient, Broadcast, SendToRole and
\* Session.Close (part_003 lines 123, 131, 142, 164, 185) on a session the
\* caller got from AddClient or GetSession.
Session_mu_RLock(t, s) ==
  /\ ~crashed
  /\ lk.scall[t] = "idle"
  /\ Allocated(s)
  /\ CanRLock(lk.smu[s])
  /\ lk' = [lk EXCEPT !.smu[s].r = @ \cup {t}, !.scall[t] = "reading"]
  /\ UNCHANGED <<hubVars, closeVars, crashed, lastReg, lockFrame>>

\* The slots are read; s.mu.RUnlock() (lines 124, 132, 145, 171, 188).
Session_mu_RUnlock(t) ==
  /\ ~crashed
  /\ lk.scall[t] = "reading"
  /\ lk' = [lk EXCEPT !.smu = [s \in SessIds |-> [@[s] EXCEPT !.r = @ \ {t}]],
                      !.scall[t] = "done"]
  /\ UNCHANGED <<hubVars, closeVars, crashed, lastReg, lockFrame>>

NextLock ==
  \/ \E w \in HubCalls : Hub_mu_Lock(w)
  \/ \E c \in PairClients : Locked_AddClient(c)
  \/ \E c \in PairClients : Locked_RemoveClient(c)
  \/ \E t \in SessionCalls, s \in SessIds : Session_mu_RLock(t, s)
  \/ \E t \in SessionCalls : Session_mu_RUnlock(t)
SpecLock == Init /\ [][NextLock]_vars

\* --------------------------------------------------- the session's budget
\* Steps a goroutine of c takes by itself once it can: the rest of
\* HandleWebSocket, readPump's deferred cleanup, writePump.  A connect and a
\* read error are events from outside and are not among them.
GoroutineStep(c) ==
  \/ sendSessionReady_Read(c)
  \/ sendSessionReady_SendNew(c)
  \/ sendSessionReady_SendOther(c)
  \/ HandleClientLeft_GetSession(c)
  \/ HandleClientLeft_GetOther(c)
  \/ HandleClientLeft_Notify(c)
  \/ HandleClientLeft_Close(c)
  \/ HandleClientLeft_Remove(c)
  \/ readPump_Cleanup(c)
  \/ writePump_Message(c)
  \/ writePump_SendClosed(c)
  \/ writePump_Done(c)
  \/ writePump_PingFails(c)

\* Two parties join, stay or fail, while the clock advances.
NextLimit ==
  \/ Tick
  \/ \E c \in PairClients : HandleWebSocket(c)
  \/ \E c \in PairClients : ReadError(c)
  \/ \E c \in PairClients : GoroutineStep(c)

\* ReadJSON on a connection that has been closed returns an error.
ClosedReadFails(c) == connClosed[c] /\ ReadError(c)

\* The Go scheduler runs every runnable goroutine, a read on a closed
\* connection fails, and the clock advances.
FairLimit ==
  /\ WF_vars(Tick)
  /\ \A c \in PairClients : WF_vars(GoroutineStep(c))
  /\ \A c \in PairClients : WF_vars(ClosedReadFails(c))
SpecLimit == Init /\ [][NextLimit]_vars /\ FairLimit

\* ===================================================================== claims
\* The slot of role r in the session registered for booking b, after a step.
SlotAfter(b, r) ==
  IF sessions'[b] = NilSess THEN Nil
  ELSE IF r = "mentor" THEN sess'[sessions'[b]].Mentor
  ELSE sess'[sessions'[b]].User

\* C1: when AddClient registers connection c for a role whose slot is held by
\* a different connection that has not been closed, that connection's Send
\* and Done are closed and its transport is closed, and the slot holds c;
\* when the slot already holds c itself, nothing is closed.
C1_Preemption ==
  [][\A c \in Clients :
       Hub_AddClient(c) =>
         LET b == ClientBooking(c)
             r == ClientRole(c)
             old == OldOccupant(b, r)
         IN /\ (old # Nil /\ old # c /\ ~sendClosed[old]) =>
                 /\ sendClosed'[old] /\ doneClosed'[old] /\ connClosed'[old]
                 /\ closeCalls'[old] = closeCalls[old] + 1
                 /\ SlotAfter(b, r) = c
            /\ (old = c) =>
                 /\ UNCHANGED <<sendClosed, doneClosed, connClosed, closeCalls>>
                 /\ SlotAfter(b, r) = c]_vars

\* C1 witness: M2 has taken the mentor slot of b1 from the open M1, which is
\* now closed.
C1_Witness ==
  /\ sessions["b1"] # NilSess
  /\ sess[sessions["b1"]].Mentor = "M2"
  /\ sendClosed["M1"] /\ doneClosed["M1"] /\ connClosed["M1"]
  /\ closeCalls["M1"] = 1
  /\ ~crashed

\* C2: every role slot of every session is empty or holds the one connection
\* AddClient registered last for the session's booking and that role.
C2_SlotHoldsLastRegistered ==
  \A s \in SessIds : \A r \in Roles :
    Slot(s, r) # Nil =>
      /\ Slot(s, r) \in Clients
      /\ sess[s].BookingID # Nil
      /\ Slot(s, r) = lastReg[sess[s].BookingID][r]
      /\ ClientRole(Slot(s, r)) = r

\* C2 witness: a second user connection replaced the first in booking b1 (the
\* first was closed once) while a mentor registered for booking b2; the b1
\* user slot holds the second connection.
C2_Witness ==
  /\ sessions["b1"] # NilSess
  /\ sess[sessions["b1"]].User = "U2"
  /\ closeCalls["U1"] = 1
  /\ lastReg["b1"]["user"] = "U2"
  /\ lastReg["b2"]["mentor"] = "M3"

\* Number of messages of type t in the sequence q.
NumOfType(q, t) == Cardinality({i \in 1..Len(q) : q[i].type = t})
\* Number of session_ready messages ever enqueued on c.Send.
ReadyNotices(c) == NumOfType(enqLog[c], "session_ready")

\* A mentor connection and a user connection have joined booking b1, both
\* HandleWebSocket executions have run to their end, no frame has been read
\* (the queues hold nothing but the notices) and neither has left.
C3_BothJoinedHandlersDone ==
  /\ hpc["M1"] = "done" /\ hpc["U1"] = "done"
  /\ rpc["M1"] = "read" /\ rpc["U1"] = "read"
  /\ nFrames = 0
  /\ sessions["b1"] # NilSess
  /\ sess[sessions["b1"]].Mentor = "M1"
  /\ sess[sessions["b1"]].User = "U1"

\* C3: once a mentor connection and a user connection have joined the same
\* booking, whatever the interleaving of the two HandleWebSocket executions,
\* each of the two has exactly one session_ready message enqueued.
C3_ExactlyOneSessionReady ==
  C3_BothJoinedHandlersDone =>
    /\ ReadyNotices("M1") = 1
    /\ ReadyNotices("U1") = 1

\* C3: the state the race ends in: both handlers passed the flag test of the
\* user before either send, and the user holds two notices.
C3_Witness ==
  /\ C3_BothJoinedHandlersDone
  /\ ReadyNotices("M1") = 1
  /\ ReadyNotices("U1") = 2
  /\ Send["U1"] = <<SessionReadyMsg("alice", "user"),
                    SessionReadyMsg("alice", "user")>>

\* The connections that registered for role r in session object s.
JoinedAs(s, r) == {c \in Clients : hSess[c] = s /\ ClientRole(c) = r}
\* Number of session_ready messages enqueued for role r of session s.
ReadyNoticesFor(s, r) ==
  Cardinality({p \in UNION {{<<c, i>> : i \in 1..Len(enqLog[c])} :
                            c \in JoinedAs(s, r)} :
                 enqLog[p[1]][p[2]].type = "session_ready"})

\* C4: over the lifetime of a session the session_ready notice is enqueued
\* at most once for each role, also when a different connection registers
\* for a role after both roles have joined.  Stated for the runs in which no
\* single connection was given the notice twice, so that a violation shows
\* two connections of one role each given the notice.
C4_ReadyOncePerRole ==
  (\A c \in Clients : ReadyNotices(c) <= 1) =>
    \A s \in SessIds : \A r \in Roles : ReadyNoticesFor(s, r) <= 1

\* C4: mentor connection M2 registered in the session in which M1 and U1 had
\* been given their notices, and was given the notice for role mentor again.
C4_Witness ==
  /\ hSess["M1"] = 1 /\ hSess["M2"] = 1 /\ hSess["U1"] = 1
  /\ ReadyNotices("M1") = 1
  /\ ReadyNotices("U1") = 1
  /\ ReadyNotices("M2") = 1
  /\ closeCalls["M1"] = 1
  /\ sess[1].Mentor = "M2"

\* The session_ready messages ever enqueued on c.Send.
ReadyPayloads(c) ==
  {enqLog[c][i].payload :
     i \in {j \in 1..Len(enqLog[c]) : enqLog[c][j].type = "session_ready"}}

\* C5: a session_ready message carries the opposite party's display name and
\* the opposite party's role: the mentor's names the user and says "user",
\* the user's names the mentor and says "mentor", whoever joined last.
C5_OppositeNameAndRole ==
  /\ \A p \in ReadyPayloads("M1") :
       p.other_party_name = Username("U1") /\ p.role = "user"
  /\ \A p \in ReadyPayloads("U1") :
       p.other_party_name = Username("M1") /\ p.role = "mentor"

\* C5: both parties hold their notice: each names the opposite party and
\* carries the receiver's own role.
C5_Witness ==
  /\ ReadyPayloads("M1") = {[other_party_name |-> "bob", role |-> "mentor"]}
  /\ ReadyPayloads("U1") = {[other_party_name |-> "alice", role |-> "user"]}
  /\ hpc["M1"] = "done" /\ hpc["U1"] = "done"

\* A frame of type offer, answer or ice_candidate that the payload struct
\* accepts and whose mandatory field is not empty.
C6_ValidRelay(f) ==
  /\ f.type \in {"offer", "answer", "ice_candidate"}
  /\ UnmarshalOk(f.payload)
  /\ LET k == IF f.type = "ice_candidate" THEN "candidate" ELSE "sdp"
     IN k \in DOMAIN f.payload /\ f.payload[k] \notin {"", JNull}

\* Envelope e has the type of frame f and every payload field of f with the
\* value f gave it (the optional fields of an ICE candidate are pointers).
C6_SameFields(e, f) ==
  /\ e.type = f.type
  /\ \A k \in DOMAIN f.payload :
       IF k \in {"sdpMid", "sdpMLineIndex"}
         THEN e.payload[k] = <<f.payload[k]>>
         ELSE e.payload[k] = f.payload[k]

\* C6: a valid offer, answer or ice_candidate frame read from party c while
\* the opposite role's slot is occupied is handed to SendToRole as an
\* envelope of the same type and payload fields, and when the occupant's
\* queue is not full SendToRole appends exactly that envelope to the
\* occupant's queue and nothing to any other queue, c's own included.
C6_RelayedToOther ==
  [][\A c \in PumpClients :
       /\ \A f \in Frames :
            LET target == Slot(hSess[c], OtherRole(ClientRole(c))) IN
            (ReadFrame(c, f) /\ C6_ValidRelay(f) /\ target # Nil) =>
              /\ rTarget'[c] = target
              /\ C6_SameFields(rMsg'[c], f)
              /\ UNCHANGED Send
       /\ (SendToRole_Send(c) /\ Len(Send[rTarget[c]]) < SendCap) =>
            Send' = [Send EXCEPT ![rTarget[c]] = Append(@, rMsg[c])]]_vars

\* C6: the mentor's second connection M2 relayed an offer to user U1, which
\* M1's departure had closed and which still held the user slot with room in
\* its queue: the send panicked and no offer was enqueued.
C6_Witness ==
  /\ crashed
  /\ nFrames = 1
  /\ rpc["M2"] = "read" /\ hpc["M2"] = "done"
  /\ rpc["U1"] = "left"
  /\ closeCalls["M1"] = 0 /\ closeCalls["M2"] = 0 /\ closeCalls["U1"] = 1
  /\ sess[1].User = "U1" /\ sess[1].Mentor = "M2"
  /\ sendClosed["U1"]
  /\ Len(Send["U1"]) < SendCap
  /\ NumOfType(enqLog["U1"], "offer") = 0

\* An offer or answer frame whose sdp, or an ice_candidate frame whose
\* candidate, is the empty string, null or absent.
C7_EmptyField(f) ==
  /\ f.type \in {"offer", "answer", "ice_candidate"}
  /\ UnmarshalOk(f.payload)
  /\ LET k == IF f.type = "ice_candidate" THEN "candidate" ELSE "sdp"
     IN k \notin DOMAIN f.payload \/ f.payload[k] \in {"", JNull}

C8_DropLeavesQueues ==
  [][\A c \in PumpClients :
       /\ \A f \in Frames :
            (/\ ReadFrame(c, f)
             /\ C6_ValidRelay(f)
             /\ Slot(hSess[c], OtherRole(ClientRole(c))) = Nil) =>
              /\ UNCHANGED <<Send, crashed>>
              /\ rpc'[c] = "read"
       /\ (SendToRole_Send(c) /\ Len(Send[rTarget[c]]) >= SendCap) =>
            /\ UNCHANGED <<Send, crashed>>
            /\ rpc'[c] = "read"]_vars

\* C8: the mentor's second connection M2 relayed an offer to user U1, which
\* M1's departure had closed and which still held the user slot with its
\* queue at capacity: the send panicked instead of dropping the message.
C8_Witness ==
  /\ crashed
  /\ nFrames = 1
  /\ rpc["M2"] = "read" /\ hpc["M2"] = "done"
  /\ rpc["U1"] = "left"
  /\ closeCalls["M1"] = 0 /\ closeCalls["M2"] = 0 /\ closeCalls["U1"] = 1
  /\ sess[1].User = "U1" /\ sess[1].Mentor = "M2"
  /\ sendClosed["U1"]
  /\ Len(Send["U1"]) = SendCap

\* C9: when party c's inbound loop has exited and HandleClientLeft closes the
\* connected (not yet closed) opposite party, the other_party_left message
\* with the booking id has been enqueued to that party before, and the close
\* closes its Send queue, its transport and its Done signal.
C9_NoticeBeforeClose ==
  [][\A c \in PairClients :
       (HandleClientLeft_Close(c) /\ ~sendClosed[lOther[c]]) =>
         /\ \E i \in 1..Len(enqLog[lOther[c]]) :
              enqLog[lOther[c]][i] = OtherPartyLeftMsg(ClientBooking(c))
         /\ sendClosed'[lOther[c]]
         /\ connClosed'[lOther[c]]
         /\ doneClosed'[lOther[c]]]_vars

\* C9: mentor M1 left while user U1 was connected with its queue at
\* capacity: U1 was closed and was never given other_party_left.
C9_Witness ==
  /\ rpc["M1"] = "remove"
  /\ rpc["U1"] = "read"
  /\ closeCalls["U1"] = 1 /\ sendClosed["U1"]
  /\ sess[1].User = "U1"
  /\ Len(Send["U1"]) = SendCap
  /\ NumOfType(enqLog["U1"], "other_party_left") = 0
  /\ ~crashed

\* C10: on every teardown path a client's Send queue and Done signal are
\* closed exactly once: Client.Close never runs a second time for a client,
\* and a client whose inbound loop has exited and whose transport is closed
\* has had its Send queue and its Done signal closed.
C10_ClosedExactlyOnce ==
  \A c \in Clients :
    /\ closeCalls[c] <= 1
    /\ (rpc[c] = "exited" /\ connClosed[c]) =>
         (sendClosed[c] /\ doneClosed[c])

\* C10: both connections of the mentor, M1 preempted by M2 and M2 on a read
\* error, ran HandleClientLeft at once and each closed user U1: the second
\* Client.Close found U1.Send closed and panicked.
C10_Witness ==
  /\ closeCalls["U1"] = 2
  /\ closeCalls["M1"] = 1
  /\ sendClosed["U1"]
  /\ crashed

\* C11: Session.Close signals termination once and closes both occupants: a
\* call never fails, leaves the termination signal closed, leaves every
\* occupant closed, and runs Client.Close only for an occupant that had not
\* been closed before (so a second call closes nothing again).
C11_CloseIdempotent ==
  [][\A s \in SessIds :
       Session_Close(s) =>
         /\ ~crashed'
         /\ sess'[s].Done
         /\ \A r \in Roles :
              Slot(s, r) # Nil =>
                /\ sendClosed'[Slot(s, r)] /\ doneClosed'[Slot(s, r)]
                /\ closeCalls'[Slot(s, r)] =
                     closeCalls[Slot(s, r)] + (IF sendClosed[Slot(s, r)] THEN 0 ELSE 1)]_vars

\* C11: a session whose two slots had been cleared was closed twice: the
\* second close(s.Done) panicked (no client was there to be the cause).
C11_Witness ==
  /\ crashed
  /\ sess[1].Done
  /\ sess[1].BookingID = "b1"
  /\ sess[1].Mentor = Nil /\ sess[1].User = Nil
  /\ \A c \in Clients : closeCalls[c] = 0

\* C12: RemoveClient(b, r) clears the slot of role r in the session of
\* booking b and nothing else: the other slot, every other session object and
\* every other booking's registration stay as they were, no client is closed,
\* and the booking's session leaves the registry exactly when both its slots
\* are empty afterwards; without a session for b the registry is unchanged.
C12_RemoveClearsOneSlot ==
  [][\A b \in Bookings : \A r \in Roles :
       Hub_RemoveClient(b, r) =>
         IF sessions[b] = NilSess
           THEN UNCHANGED <<sessions, sess, nextSess>>
           ELSE LET s == sessions[b] IN
                /\ (IF r = "mentor" THEN sess'[s].Mentor ELSE sess'[s].User) = Nil
                /\ (IF r = "mentor" THEN sess'[s].User = sess[s].User
                                    ELSE sess'[s].Mentor = sess[s].Mentor)
                /\ sess'[s].BookingID = sess[s].BookingID
                /\ \A t \in SessIds \ {s} : sess'[t] = sess[t]
                /\ \A d \in Bookings \ {b} : sessions'[d] = sessions[d]
                /\ (sessions'[b] = NilSess) <=>
                     (sess'[s].Mentor = Nil /\ sess'[s].User = Nil)
                /\ sessions'[b] \in {NilSess, s}
                /\ UNCHANGED <<sendClosed, doneClosed, connClosed>>]_vars

\* C12: the mentor was removed from the session of b1, in which the user
\* stays registered, while the session of b2 is untouched.
C12_Witness ==
  /\ sessions["b1"] = 1 /\ sessions["b2"] = 2
  /\ lastReg["b1"]["mentor"] = "M1"
  /\ sess[1].Mentor = Nil /\ sess[1].User = "U1"
  /\ sess[2].Mentor = "M3"
  /\ nCalls = 4

\* C13: MessageBuffer.Add on a buffer holding maxSize messages returns
\* ErrMessageBufferFull and leaves the contents as they were, and on a buffer
\* holding fewer it returns nil and appends at the end; Flush returns the
\* messages whose Add succeeded since the last Flush or since creation, in
\* insertion order, and leaves the buffer empty.
C13_AddAndFlush ==
  [][/\ \A m \in ApiMessages :
          MessageBuffer_Add(m) =>
            IF Len(messages) = maxSize
              THEN ret'.val = "ErrMessageBufferFull" /\ messages' = messages
              ELSE /\ Len(messages) < maxSize
                   /\ ret'.val = "nil"
                   /\ messages' = Append(messages, m)
     /\ MessageBuffer_Flush =>
          /\ ret'.val = added
          /\ messages' = <<>>]_vars
C13_Witness ==
  /\ ret.op = "Add" /\ ret.val = "ErrMessageBufferFull"
  /\ Len(messages) = maxSize
  /\ added = messages

\* C14: once SetPeerConnectionReady(true) has returned, a BufferMessage call
\* that starts afterwards returns false and leaves the buffer as it was, also
\* when SetPeerConnectionReady(false) was called in between; a BufferMessage
\* call that found buffering active returns true exactly when it appended its
\* message, and returns false with the buffer untouched on overflow.
C14_NoBufferingAfterReady ==
  [][/\ \A g \in BufCallers, m \in ApiMessages :
          (BufferMessage_Read(g, m) /\ readySet) =>
            /\ ret' = [op |-> "BufferMessage", val |-> FALSE]
            /\ messages' = messages
            /\ bpc'[g] = "idle"
     /\ \A g \in BufCallers :
          BufferMessage_Add(g) =>
            /\ ret'.val = (messages' = Append(messages, bMsg[g]))
            /\ ~ret'.val => (Len(messages) = maxSize /\ messages' = messages)]_vars
C14_Witness ==
  /\ readySet /\ ~PeerConnectionReady /\ ~MessageBufferActive
  /\ ret = [op |-> "BufferMessage", val |-> FALSE]
  /\ messages = <<>> /\ added = <<>>
  /\ nCalls = 3

\* C15: a registry session comes into being for a booking only through a
\* connection to a confirmed booking made inside its time window, and a
\* connection attempt of a party whose role cannot be derived leaves the
\* registry as it was.
C15_RejectedBeforeSession ==
  [][/\ \A b \in Bookings :
          (sessions[b] = NilSess /\ sessions'[b] # NilSess) =>
            (bookingStatus[b] = "confirmed" /\ ValidateSessionTime(now))
     /\ \A u \in Users, b \in Bookings :
          WebSocketAuthMiddleware_Forbidden(u, b) => UNCHANGED hubVars]_vars
C15_Witness ==
  /\ sessions["b2"] # NilSess
  /\ sess[sessions["b2"]].Mentor = "M3"
  /\ bookingStatus["b2"] = "pending"
  /\ spc["M3"] = "open"

\* The caller owns the booking, as its user or through its mentor profile.
Owns(u, b) == BookingUserID(b) = u \/ (MentorProfile(u) # Nil /\ BookingMentorID(b) = MentorProfile(u))

\* C16: whatever role value the client supplies, GetSessionInfo answers with
\* eligibility, creates the session record, or reveals the other party's
\* presence and name only when the caller owns the booking as its user or as
\* its mentor.
C16_RoleFromOwnership ==
  [][\A u \in Users, b \in Bookings, q \in QueryRoles, tz \in Timezones :
       GetSessionInfo(u, b, q, tz) =>
         ((reply'.CanJoin \/ reply'.OtherPartyJoined \/ reply'.OtherPartyName # ""
             \/ rec'[b] # rec[b])
            => Owns(u, b))]_vars

\* The text columns of a row.
TextColumns(r) == {r.booking_id, r.mentor_id, r.user_id, r.status}

\* C17: EndSession computes the duration as the time from the recorded start
\* to now, zero when the session was never started, and its update leaves the
\* row completed, ended now, with that duration and with the reason it was
\* given stored in the row.
C17_EndSessionRecord ==
  [][\A e \in Enders :
       LET b == ClientBooking(e)
       IN /\ (EndSession_Read(e) /\ rec[b] # NoRecord) =>
               eDur'[e] = IF rec[b].session_started_at = NullTime
                            THEN 0
                            ELSE now - rec[b].session_started_at
          /\ EndSession_Write(e) =>
               /\ rec'[b].status = "completed"
               /\ rec'[b].session_ended_at = now
               /\ rec'[b].duration_seconds = eDur[e]
               /\ PartyLeft \in TextColumns(rec'[b])]_vars
C17_Witness ==
  /\ rec["b1"].status = "completed"
  /\ rec["b1"].session_started_at = WindowStart
  /\ rec["b1"].session_ended_at = WindowStart + 1
  /\ rec["b1"].duration_seconds = 1
  /\ endRuns["b1"] = 1
  /\ PartyLeft \notin TextColumns(rec["b1"])

\* C18: an EndSession run on a booking that an earlier run has already ended
\* leaves the persisted status, duration and end time as the first run wrote
\* them.
C18_EndSessionIdempotent ==
  [][\A e \in Enders :
       LET b == ClientBooking(e)
       IN (EndSession_Write(e) /\ endRuns[b] >= 1) =>
            /\ rec'[b].status = rec[b].status
            /\ rec'[b].duration_seconds = rec[b].duration_seconds
            /\ rec'[b].session_ended_at = rec[b].session_ended_at]_vars
C18_Witness ==
  /\ endRuns["b1"] = 2
  /\ spc["M1"] = "gone" /\ spc["U1"] = "gone"
  /\ rec["b1"].status = "completed"
  /\ rec["b1"].session_started_at = WindowStart
  /\ rec["b1"].mentor_left_at = WindowStart
  /\ rec["b1"].session_ended_at = WindowStart + 1
  /\ rec["b1"].duration_seconds = 0

Unwritten(c) ==
  SubSeq(enqLog[c], Len(written[c]) + 1, Len(enqLog[c]) - Len(Send[c]))

\* C20: a message SendToRole gets accepted for a role is appended at the end
\* of that role's Send queue, behind everything enqueued before it, and what
\* the outbound loop has written to the transport is, in order and without
\* repetition, the beginning of what was enqueued: everything enqueued is
\* the written messages, then at most one message a failed write consumed as
\* the loop ended, then the messages still waiting in the queue.
C20_EnqueueOrderIsWriteOrder ==
  [][/\ \A s \in SessIds, r \in Roles, m \in ApiMessages :
          (Session_SendToRole(s, r, m) /\ Slot(s, r) # Nil /\ Enqueued(Slot(s, r))) =>
            /\ Send'[Slot(s, r)] = Append(Send[Slot(s, r)], m)
            /\ enqLog'[Slot(s, r)] = Append(enqLog[Slot(s, r)], m)
     /\ \A c \in Clients :
          /\ Len(written'[c]) + Len(Send'[c]) <= Len(enqLog'[c])
          /\ enqLog'[c] = written'[c] \o Unwritten(c)' \o Send'[c]
          /\ Len(Unwritten(c)') <= 1
          /\ Len(Unwritten(c)') = 1 => wpc'[c] = "exited"]_vars
C20_Witness ==
  /\ written["U1"] = <<PongMsg, OtherPartyLeftMsg("b1")>>
  /\ enqLog["U1"] = written["U1"]
  /\ Send["U1"] = <<>>
  /\ nCalls = 2

\* ------------------------------------------------------------------ C21
PingFrame == [type |-> "ping", payload |-> EmptyPayload]

\* C21: a ping frame read from a party puts one pong envelope with an empty
\* payload on that party's own Send queue by a non-blocking send (the pong is
\* dropped when the queue is full), puts nothing on any other queue, and the
\* process goes on.
C21_PingGetsPong ==
  [][\A c \in Clients :
       ReadFrame(c, PingFrame) =>
         /\ ~crashed'
         /\ Send'[c] = IF SendFits(c) THEN Append(Send[c], PongMsg)
                                     ELSE Send[c]
         /\ \A d \in Clients \ {c} : Send'[d] = Send[d]]_vars

\* The mentor's queue was closed by the leaving user's teardown, no API call
\* was made, and the one frame read crashed the process: the mentor's ping.
C21_Witness ==
  /\ crashed
  /\ nFrames = 1
  /\ nCalls = 0
  /\ sendClosed["M1"] /\ closeCalls["M1"] = 1
  /\ rpc["M1"] = "read"
  /\ rpc["U1"] \in {"remove", "cleanup", "exited"}
  /\ ~sendClosed["U1"]

\* ------------------------------------------------------------------ C22
\* Frames readPump is to ignore: text that is not JSON, JSON that does not
\* decode into the envelope, and an envelope of an unknown type.
BadFrames == {f \in OtherFrames : f.type \in {"invalid_json", "not_object", "bogus"}}

\* The frame is dropped and the loop of c goes on reading.
FrameIgnored(c) ==
  /\ UNCHANGED <<Send, enqLog, sessions, sess, chanVars>>
  /\ rpc'[c] = "read"
  /\ ~crashed'

\* C22: a frame whose envelope cannot be parsed, or whose type is none of
\* offer, answer, ice_candidate, leave_call, ping, is ignored: nothing is
\* enqueued to either party, the registry and the sessions are unchanged, and
\* the inbound loop keeps reading on the same connection.
C22_BadFrameIgnored ==
  [][\A c \in Clients, f \in BadFrames : ReadFrame(c, f) => FrameIgnored(c)]_vars

\* ------------------------------------------------------------------ C23
LeaveFrame == [type |-> "leave_call", payload |-> EmptyPayload]

\* The positions of readPump's deferred cleanup, in program order:
\* HandleClientLeft (left .. remove), then RemoveClient and Conn.Close.
CleanupSteps == {"left", "get_other", "notify", "close_other", "remove", "cleanup"}

InSomeSlot(c) ==
  \E s \in SessIds : sess[s].Mentor = c \/ sess[s].User = c

\* C23: on a leave_call frame or a read error the inbound loop exits and its
\* cleanup runs through, in order: the departure is handled by
\* HandleClientLeft, the client is removed from the registry, the connection
\* is closed; leave_call is handled like any other disconnect.  As a
\* property of steps: either event takes the loop to the cleanup and changes
\* nothing else, every step of the cleanup completes (none ends the
\* process), and the loop is over only when the last step has run, with the
\* client out of the registry and its connection closed.
C23_CleanupRuns ==
  [][\A c \in Clients :
       /\ (ReadError(c) \/ ReadFrame(c, LeaveFrame)) =>
            rpc'[c] = "left" /\ UNCHANGED <<hubVars, chanVars, Send>>
       /\ (rpc[c] \in CleanupSteps /\ rpc'[c] # rpc[c]) => ~crashed'
       /\ (rpc[c] # "exited" /\ rpc'[c] = "exited") =>
            rpc[c] = "cleanup" /\ connClosed'[c] /\ ~InSomeSlot(c)']_vars

\* The second mentor connection's cleanup was cut short at the notice to the
\* user, whose queue the first mentor connection's cleanup had closed: it is
\* still registered and its cleanup will never finish.
C23_Witness ==
  /\ crashed
  /\ rpc["M2"] = "close_other"
  /\ lOther["M2"] = "U1"
  /\ closeCalls["U1"] = 1
  /\ sess[1].Mentor = "M2"
  /\ rpc["M1"] \in {"remove", "cleanup", "exited"}

\* ------------------------------------------------------------------ C24
\* No goroutine still holds c: a later Client.Close on c can only come from
\* a holder or from the registry.
Unreferenced(c) ==
  /\ ~InSomeSlot(c)
  /\ \A d \in Clients : hOther[d] # c /\ rTarget[d] # c /\ lOther[d] # c

\* Both loops of c are over and nothing can reach c any more.
LoopsOver(c) == rpc[c] = "exited" /\ wpc[c] = "exited" /\ Unreferenced(c)

\* C24: an I/O error on either loop of a client ends in the full teardown of
\* that client: connection closed, Send queue closed, Done closed, both loops
\* exited.  As a final result: once both loops of a client are over and
\* nothing holds the client any more, its connection, its Send queue and its
\* Done signal are closed.
C24_FullTeardown ==
  \A c \in Clients :
    LoopsOver(c) => connClosed[c] /\ sendClosed[c] /\ doneClosed[c]

\* The mentor was alone in the session; its read failed, both its loops are
\* over and its connection is closed, but nobody closed its queue or Done.
C24_Witness ==
  /\ ~crashed
  /\ hpc["U1"] = "idle"
  /\ LoopsOver("M1")
  /\ connClosed["M1"]
  /\ ~sendClosed["M1"] /\ ~doneClosed["M1"]
  /\ closeCalls["M1"] = 0
  /\ nFrames = 0

\* ------------------------------------------------------------------ C25
SlotsWritten(s) ==
  sess'[s].Mentor # sess[s].Mentor \/ sess'[s].User # sess[s].User

\* C25: every write to a session's mentor or user slot, by Hub.AddClient and
\* by Hub.RemoveClient, is made by a writer that holds that session's own
\* lock, so no slot write happens while BothJoined, GetOtherClient,
\* SendToRole, Broadcast or Close holds the session's read lock.
C25_SlotWritesUnderSessionLock ==
  [][\A s \in SessIds :
       SlotsWritten(s) =>
         /\ lk.hmu.w \in HubCalls
         /\ lk.smu[s].w = lk.hmu.w
         /\ lk.smu[s].r = {}]_vars

\* BothJoined took the read lock of the session when the mentor was in it
\* alone and has not released it; meanwhile AddClient has written the user
\* slot.
C25_Witness ==
  /\ lk.scall["BothJoined"] = "reading"
  /\ "BothJoined" \in lk.smu[1].r
  /\ "BothJoined" \in lk.raced
  /\ lk.hcall[<<"AddClient", "U1">>] = "done"
  /\ lk.hcall[<<"RemoveClient", "M1">>] = "idle"
  /\ lk.hcall[<<"RemoveClient", "U1">>] = "idle"
  /\ sess[1].Mentor = "M1" /\ sess[1].User = "U1"

\* ------------------------------------------------------------------ C26
\* The relay of c puts its envelope on a queue.
RelayEnqueues(c) == SendToRole_Send(c) /\ Send' # Send

\* C26: a relayed message is enqueued to the client that occupies the
\* addressed role's slot in the booking's registered session at the time of
\* the relay, never to a preempted or departed connection, and never through
\* a session object that is no longer the registry's session for the booking.
C26_RelayToCurrentOccupant ==
  [][\A c \in Clients :
       RelayEnqueues(c) =>
         LET s == sessions[ClientBooking(c)] IN
         /\ s # NilSess
         /\ s = hSess[c]
         /\ rTarget[c] = Slot(s, OtherRole(ClientRole(c)))]_vars

\* ------------------------------------------------------------------ C27
\* The step puts one session_ready notice at the end of c's queue.
ReadyNoticeEnqueued(c) ==
  /\ Len(Send'[c]) = Len(Send[c]) + 1
  /\ SubSeq(Send'[c], 1, Len(Send[c])) = Send[c]
  /\ Send'[c][Len(Send'[c])].type = "session_ready"
  /\ enqLog'[c] = Append(enqLog[c], Send'[c][Len(Send'[c])])

\* C27: a client's SessionReadySent flag is true only if a session_ready
\* notice was enqueued on that client's Send queue (a notice dropped on a
\* full queue leaves the flag false); the flag goes from false to true at
\* most once and never back to false.
C27_FlagMeansEnqueued ==
  [][\A c \in Clients :
       /\ (~SessionReadySent[c] /\ SessionReadySent'[c]) => ReadyNoticeEnqueued(c)
       /\ SessionReadySent[c] => SessionReadySent'[c]
       /\ SessionReadySent'[c] => ReadyNotices(c)' >= 1]_vars

\* The user joined while the mentor's queue was full: the user got its notice
\* and its flag, the mentor's notice was dropped and its flag is still false.
C27_Witness ==
  /\ hpc["U1"] = "done" /\ hpc["M1"] = "done"
  /\ SessionReadySent["U1"] /\ ReadyNotices("U1") = 1
  /\ ~SessionReadySent["M1"] /\ ReadyNotices("M1") = 0
  /\ Len(Send["M1"]) = SendCap
  /\ ~sendClosed["M1"]
  /\ ~crashed

\* ------------------------------------------------------------------ C28
\* Session object s is the registry's session of its booking.
Registered(s) ==
  /\ Allocated(s)
  /\ sessions[sess[s].BookingID] = s

\* StartTime + MaxDuration has passed for a session in the registry.
Expired(s) ==
  /\ Registered(s)
  /\ now - sess[s].StartTime >= sess[s].MaxDuration

\* SessionEndedNotification with Reason "time_limit_reached".
TimeLimitNotice(m) ==
  /\ m.type = "session_ended"
  /\ m.payload.reason = "time_limit_reached"

Notified(c) == \E i \in 1..Len(enqLog[c]) : TimeLimitNotice(enqLog[c][i])

\* The session is over: its termination signal is given, it is out of the
\* registry, and the parties that were in it were told why.
Ended(s) ==
  /\ sess[s].Done
  /\ ~Registered(s)
  /\ \A c \in Clients : (hSess[c] = s /\ hpc[c] = "done") => Notified(c)

\* C28: a session whose maximum duration has elapsed since its start time
\* is eventually ended: both connected parties are notified with reason
\* time_limit_reached and the session is torn down.  A session that its
\* parties tear down themselves after the limit is let off here.
C28_TimeLimitEnforced ==
  \A s \in SessIds : Expired(s) ~> (Ended(s) \/ ~Registered(s))

\* Both parties are connected and reading, the clock has run to its last
\* reading, far past the budget, and the session is as it was.
C28_Witness ==
  /\ Expired(1)
  /\ now = MaxNow
  /\ now - sess[1].StartTime > sess[1].MaxDuration
  /\ BothJoined(1)
  /\ ~sess[1].Done
  /\ \A c \in PairClients : rpc[c] = "read" /\ wpc[c] = "run" /\ ~Notified(c)
  /\ ~crashed

\* ------------------------------------------------------------------ C29
\* C29: in every interleaving of joins, relays, pings, session_ready
\* delivery, preemptions and disconnects, no send is attempted on a Send
\* queue that Client.Close has closed: not by SendToRole, not by the
\* other_party_left notice, not by session_ready, not by a client's own pong.
C29_NoSendAfterClose ==
  [][\A c \in Clients :
       /\ ReadFrame(c, PingFrame) => ~sendClosed[c]
       /\ SendToRole_Send(c) => ~sendClosed[rTarget[c]]
       /\ HandleClientLeft_Notify(c) => ~sendClosed[lOther[c]]
       /\ sendSessionReady_SendNew(c) => ~sendClosed[c]
       /\ sendSessionReady_SendOther(c) => ~sendClosed[hOther[c]]]_vars

\* The handler of the mentor's second connection sent session_ready to the
\* user, whose queue the cleanup of the preempted first connection had closed
\* and who still held the user slot: the send panicked in the handler.
C29_Witness ==
  /\ hpc["M2"] = "panicked"
  /\ SessionReadySent["M2"] /\ ~SessionReadySent["U1"]
  /\ sendClosed["U1"] /\ closeCalls["U1"] = 1
  /\ sess[1].User = "U1" /\ sess[1].Mentor = "M2"
  /\ closeCalls["M1"] = 1 /\ closeCalls["M2"] = 0
  /\ ~crashed

\* ------------------------------------------------------------------ C30
\* c's connection is open and its inbound loop is reading or relaying.
OpenAndReading(c) == ~connClosed[c] /\ rpc[c] \in {"read", "send"}

\* c is in its role's slot of the registry's session for its booking.
Occupant(c) ==
  /\ sessions[ClientBooking(c)] # NilSess
  /\ Slot(sessions[ClientBooking(c)], ClientRole(c)) = c

\* The step leaves every slot held by a connection other than c as it is.
KeepsOthersSlots(c) ==
  \A s \in SessIds, r \in Roles :
    Slot(s, r) \notin {Nil, c} => Slot(s, r)' = Slot(s, r)

\* C30: the teardown of a connection never clears a role slot held by a
\* different connection instance (after M2 preempts M1, the cleanup run by
\* M1's inbound loop leaves M2 in the slot), so every client whose
\* connection is open and whose inbound loop is running is the occupant of
\* its role's slot in the registry session for its booking.
C30_TeardownKeepsOthersSlots ==
  [][\A c \in Clients :
       /\ (HandleClientLeft_Remove(c) \/ readPump_Cleanup(c)) => KeepsOthersSlots(c)
       /\ OpenAndReading(c)' => Occupant(c)']_vars

\* The cleanup of the preempted M1 has cleared the mentor slot: M2, whose
\* connection is open and whose loop is reading, is in no slot.
C30_Witness ==
  /\ OpenAndReading("M2")
  /\ closeCalls["M2"] = 0
  /\ sess[1].Mentor = Nil
  /\ ~InSomeSlot("M2")
  /\ sendClosed["M1"]
  /\ rpc["M1"] \in {"cleanup", "exited"}
  /\ ~crashed

\* ------------------------------------------------------------------ C31
\* c's role is still served: the slot of c's role in the registry's session
\* holds another connection, and that connection is open.
Superseded(c) ==
  LET s == sessions[ClientBooking(c)] IN
  /\ s # NilSess
  /\ Slot(s, ClientRole(c)) \notin {Nil, c}
  /\ ~connClosed[Slot(s, ClientRole(c))]

\* HandleClientLeft of c goes on to s.EndSession(ctx, bookingID, "party_left")
\* (part_002 lines 207-208): it found the session in the registry.
EntersEndSession(c) ==
  /\ rpc[c] \in {"get_other", "close_other"}
  /\ rpc'[c] = "remove"

\* C31: a party is sent other_party_left and force-closed only when the
\* opposite role has no live connection left: the teardown of a connection
\* that a newer connection of the same role has preempted does not notify or
\* close the party of the other role and does not end the persisted session.
C31_PreemptedTeardownSparesPeer ==
  [][\A c \in Clients :
       Superseded(c) =>
         /\ ~HandleClientLeft_Notify(c)
         /\ ~HandleClientLeft_Close(c)
         /\ ~EntersEndSession(c)]_vars

\* The cleanup of the preempted M1 has told the user that the other party
\* left and has closed the user, while M2 holds the mentor slot with an open
\* connection and is reading.
C31_Witness ==
  /\ rpc["M1"] = "remove"
  /\ sess[1].Mentor = "M2" /\ sess[1].User = "U1"
  /\ OpenAndReading("M2")
  /\ closeCalls["U1"] = 1 /\ sendClosed["U1"]
  /\ NumOfType(enqLog["U1"], "other_party_left") = 1
  /\ closeCalls["M2"] = 0
  /\ ~crashed

\* ------------------------------------------------------------------ C32
\* C32: every session stored in the registry's map has at least one occupied
\* role slot: GetSession never returns a session with both slots empty,
\* whatever the interleaving of AddClient and RemoveClient.
C32_NoEmptySessionInMap ==
  \A b \in Bookings :
    GetSession(b) # NilSess =>
      sess[GetSession(b)].Mentor # Nil \/ sess[GetSession(b)].User # Nil

\* The session of b1 lost both its clients and was deleted from the map, its
\* object left behind with two empty slots; b1 was then joined again and has
\* a new session with one occupied slot.
C32_Witness ==
  /\ sess[1].BookingID = "b1" /\ sess[1].Mentor = Nil /\ sess[1].User = Nil
  /\ GetSession("b1") = 2
  /\ sess[2].BookingID = "b1"
  /\ sess[2].Mentor # Nil /\ sess[2].User = Nil
  /\ ~crashed

\* C33: once SetPeerConnectionReady(true) has returned and FlushBuffer has
\* run after it, the handover is complete: every message BufferMessage
\* accepted was in that FlushBuffer's result, so no BufferMessage call
\* finishing afterwards appends a message and returns true, and none leaves
\* the buffer non-empty.
C33_NothingBufferedAfterHandover ==
  [][\A g \in BufCallers :
       (BufferMessage_Add(g) /\ flushedReady) =>
         /\ ret'.val = FALSE
         /\ messages' = messages]_vars

C33_Witness ==
  /\ flushedReady /\ readySet /\ ~MessageBufferActive
  /\ ret = [op |-> "BufferMessage", val |-> TRUE]
  /\ Len(messages) = 1 /\ added = messages
  /\ \A g \in BufCallers : bpc[g] = "idle"

\* C34: the persisted record of a booking moves only forward through
\* waiting, active, completed, and the record of a call that both parties
\* joined is active with a recorded start time when it is marked completed.
StatusRank(r) ==
  CASE r.status = "none" -> 0
    [] r.status = "waiting" -> 1
    [] r.status = "active" -> 2
    [] r.status = "completed" -> 3
MovesForward(b) == StatusRank(rec[b]) <= StatusRank(rec'[b])
BothJoinedRow(r) ==
  /\ r # NoRecord
  /\ r.mentor_joined_at # NullTime
  /\ r.user_joined_at # NullTime
MarkedCompleted(b) ==
  /\ rec[b].status # "completed"
  /\ rec'[b].status = "completed"
C34_ForwardAndStartedBeforeCompleted ==
  [][\A b \in Bookings :
       /\ MovesForward(b)
       /\ (MarkedCompleted(b) /\ BothJoinedRow(rec[b])) =>
            /\ rec[b].status = "active"
            /\ rec[b].session_started_at # NullTime]_vars

C34_Witness ==
  /\ rec["b1"].status = "completed"
  /\ rec["b1"].mentor_joined_at = 1 /\ rec["b1"].user_joined_at = 1
  /\ rec["b1"].session_started_at = NullTime
  /\ rec["b1"].session_ended_at = 2
  /\ rec["b1"].duration_seconds = 0
  /\ endRuns["b1"] = 1
  /\ ~crashed

====
